---- MODULE Spec2Model ----
(***************************************************************************)
(* Model of the hybrid agent controller of aicli (src/agent/agent.rs):     *)
(* the directive parser parse_decision, the system prompt rendered by      *)
(* build_hybrid_system_prompt, the argument normalizer                     *)
(* normalize_tool_args, and the orchestration loop run_agent with its      *)
(* seeding entry point answer_query_hybrid; beside it chunk_text           *)
(* (src/rag/src/chunk_text.rs) and the event loop and input line of the    *)
(* terminal application (src/src/main.rs).                                 *)
(*                                                                         *)
(* Text is modelled as a sequence of one-character strings, so that        *)
(* find/rfind, slicing, trimming and case folding are computed as the      *)
(* code computes them.  The alphabet is ASCII without the backslash, so    *)
(* JSON string escapes do not occur.                                       *)
(***************************************************************************)
EXTENDS Integers, Sequences, FiniteSets, TLC

\* ------------------------------------------------------------------------
\* Bounds of the model
\* ------------------------------------------------------------------------
MaxSteps == 2          \* largest configured step limit explored
MaxBraceLen == 3       \* longest raw text enumerated over the brace alphabet
MaxChunkText == 3      \* longest text handed to chunk_text
MaxChunkSize == 4      \* largest chunk_size; chunk_overlap goes one beyond
MaxInput == 3          \* most bytes typed into the input line

\* ------------------------------------------------------------------------
\* Text utilities (str::trim, to_ascii_lowercase, contains, find, rfind)
\* ------------------------------------------------------------------------
WhiteSpace == {" ", "\n", "\t"}

UpperToLower ==
    [c \in {"A","B","C","D","E","F","G","H","I","J","K","L","M",
            "N","O","P","Q","R","S","T","U","V","W","X","Y","Z"} |->
        CASE c = "A" -> "a" [] c = "B" -> "b" [] c = "C" -> "c" [] c = "D" -> "d"
          [] c = "E" -> "e" [] c = "F" -> "f" [] c = "G" -> "g" [] c = "H" -> "h"
          [] c = "I" -> "i" [] c = "J" -> "j" [] c = "K" -> "k" [] c = "L" -> "l"
          [] c = "M" -> "m" [] c = "N" -> "n" [] c = "O" -> "o" [] c = "P" -> "p"
          [] c = "Q" -> "q" [] c = "R" -> "r" [] c = "S" -> "s" [] c = "T" -> "t"
          [] c = "U" -> "u" [] c = "V" -> "v" [] c = "W" -> "w" [] c = "X" -> "x"
          [] c = "Y" -> "y" [] c = "Z" -> "z"]

LowerChar(c) == IF c \in DOMAIN UpperToLower THEN UpperToLower[c] ELSE c

\* str::to_ascii_lowercase / str::to_lowercase on ASCII text
ToLower(s) == [i \in 1..Len(s) |-> LowerChar(s[i])]

\* s.trim().is_empty()
IsBlank(s) == \A i \in 1..Len(s) : s[i] \in WhiteSpace

\* str::trim
Trim(s) ==
    IF IsBlank(s) THEN <<>>
    ELSE LET first == CHOOSE i \in 1..Len(s) :
                          /\ s[i] \notin WhiteSpace
                          /\ \A j \in 1..(i-1) : s[j] \in WhiteSpace
             last  == CHOOSE i \in 1..Len(s) :
                          /\ s[i] \notin WhiteSpace
                          /\ \A j \in (i+1)..Len(s) : s[j] \in WhiteSpace
         IN SubSeq(s, first, last)

\* str::contains(needle)
Contains(s, needle) ==
    \E i \in 1..(Len(s) - Len(needle) + 1) :
        SubSeq(s, i, i + Len(needle) - 1) = needle

\* str::find(ch): 1-based index of the first occurrence, 0 for None
FindChar(s, ch) ==
    IF \E i \in 1..Len(s) : s[i] = ch
    THEN CHOOSE i \in 1..Len(s) : s[i] = ch /\ \A j \in 1..(i-1) : s[j] # ch
    ELSE 0

\* str::rfind(ch): 1-based index of the last occurrence, 0 for None
RFindChar(s, ch) ==
    IF \E i \in 1..Len(s) : s[i] = ch
    THEN CHOOSE i \in 1..Len(s) : s[i] = ch /\ \A j \in (i+1)..Len(s) : s[j] # ch
    ELSE 0

\* ------------------------------------------------------------------------
\* serde_json::Value
\* ------------------------------------------------------------------------
JNull    == [t |-> "null", s |-> <<>>, m |-> <<>>, a |-> <<>>]
JBool(b) == [t |-> "bool", s |-> IF b THEN <<"t">> ELSE <<"f">>, m |-> <<>>, a |-> <<>>]
JNum(d)  == [t |-> "num",  s |-> d,    m |-> <<>>, a |-> <<>>]
JStr(x)  == [t |-> "str",  s |-> x,    m |-> <<>>, a |-> <<>>]
JObj(f)  == [t |-> "obj",  s |-> <<>>, m |-> f,    a |-> <<>>]
JArr(q)  == [t |-> "arr",  s |-> <<>>, m |-> <<>>, a |-> q]

\* Value::is_null
IsNull(v) == v.t = "null"

\* Value::get(key).and_then(as_str): Some(text) or None
None == [some |-> FALSE, s |-> <<>>]
Some(x) == [some |-> TRUE, s |-> x]

\* Value::as_str
AsStr(v) == IF v.t = "str" THEN Some(v.s) ELSE None

\* Value::get(key) followed by as_str
GetStr(v, key) ==
    IF v.t = "obj" /\ key \in DOMAIN v.m THEN AsStr(v.m[key]) ELSE None

\* ------------------------------------------------------------------------
\* serde_json::from_str::<Value>: a recursive-descent JSON reader over
\* characters.  Objects keep the last value of a repeated key.
\* ------------------------------------------------------------------------
Digits == {"0","1","2","3","4","5","6","7","8","9"}
Quote == "\""

PFail == [ok |-> FALSE, v |-> JNull, pos |-> 0]
POk(v, pos) == [ok |-> TRUE, v |-> v, pos |-> pos]

RECURSIVE SkipWs(_, _)
SkipWs(s, i) ==
    IF i <= Len(s) /\ s[i] \in {" ", "\n", "\t", "\r"} THEN SkipWs(s, i + 1) ELSE i

RECURSIVE NumEnd(_, _)
NumEnd(s, i) ==
    IF i <= Len(s) /\ s[i] \in Digits THEN NumEnd(s, i + 1) ELSE i

HasLiteral(s, i, lit) ==
    i + Len(lit) - 1 <= Len(s) /\ SubSeq(s, i, i + Len(lit) - 1) = lit

\* s[i] is the opening quote
ParseStringLit(s, i) ==
    IF \E k \in (i+1)..Len(s) : s[k] = Quote
    THEN LET k == CHOOSE k \in (i+1)..Len(s) :
                      s[k] = Quote /\ \A j \in (i+1)..(k-1) : s[j] # Quote
             body == SubSeq(s, i + 1, k - 1)
         IN IF \E j \in 1..Len(body) : body[j] \in {"\n", "\t", "\r"}
            THEN PFail
            ELSE POk(JStr(body), k + 1)
    ELSE PFail

\* the value of F at e, with e evaluated once
Bind(e, F(_)) == CHOOSE r \in {F(x) : x \in {e}} : TRUE

RECURSIVE ParseValue(_, _)
RECURSIVE ParseMembers(_, _, _)
RECURSIVE ParseElements(_, _, _)

ParseValue(s, i) ==
    Bind(SkipWs(s, i), LAMBDA j :
    IF j > Len(s) THEN PFail
    ELSE CASE s[j] = "{" ->
                  Bind(SkipWs(s, j + 1), LAMBDA k :
                  IF k <= Len(s) /\ s[k] = "}" THEN POk(JObj(<<>>), k + 1)
                  ELSE ParseMembers(s, k, <<>>))
           [] s[j] = "[" ->
                  Bind(SkipWs(s, j + 1), LAMBDA k :
                  IF k <= Len(s) /\ s[k] = "]" THEN POk(JArr(<<>>), k + 1)
                  ELSE ParseElements(s, k, <<>>))
           [] s[j] = Quote -> ParseStringLit(s, j)
           [] s[j] = "n" ->
                  IF HasLiteral(s, j, <<"n","u","l","l">>)
                  THEN POk(JNull, j + 4) ELSE PFail
           [] s[j] = "t" ->
                  IF HasLiteral(s, j, <<"t","r","u","e">>)
                  THEN POk(JBool(TRUE), j + 4) ELSE PFail
           [] s[j] = "f" ->
                  IF HasLiteral(s, j, <<"f","a","l","s","e">>)
                  THEN POk(JBool(FALSE), j + 5) ELSE PFail
           [] s[j] \in Digits ->
                  Bind(IF s[j] = "0" THEN j + 1 ELSE NumEnd(s, j), LAMBDA e :
                  POk(JNum(SubSeq(s, j, e - 1)), e))
           [] OTHER -> PFail)

\* Map::insert: a repeated key keeps its last value
MapInsert(acc, key, val) ==
    [x \in (DOMAIN acc) \cup {key} |-> IF x = key THEN val ELSE acc[x]]

\* members after "{", acc is the map read so far
ParseMembers(s, i, acc) ==
    Bind(SkipWs(s, i), LAMBDA j :
    IF j > Len(s) \/ s[j] # Quote THEN PFail
    ELSE Bind(ParseStringLit(s, j), LAMBDA key :
         IF ~key.ok THEN PFail
         ELSE Bind(SkipWs(s, key.pos), LAMBDA c :
              IF c > Len(s) \/ s[c] # ":" THEN PFail
              ELSE Bind(ParseValue(s, c + 1), LAMBDA val :
                   IF ~val.ok THEN PFail
                   ELSE Bind(MapInsert(acc, key.v.s, val.v), LAMBDA acc2 :
                        Bind(SkipWs(s, val.pos), LAMBDA d :
                        IF d > Len(s) THEN PFail
                        ELSE IF s[d] = "," THEN ParseMembers(s, d + 1, acc2)
                        ELSE IF s[d] = "}" THEN POk(JObj(acc2), d + 1)
                        ELSE PFail))))))

\* elements after "[", acc is the array read so far
ParseElements(s, i, acc) ==
    Bind(ParseValue(s, i), LAMBDA val :
    IF ~val.ok THEN PFail
    ELSE Bind(SkipWs(s, val.pos), LAMBDA d :
         IF d > Len(s) THEN PFail
         ELSE IF s[d] = "," THEN ParseElements(s, d + 1, Append(acc, val.v))
         ELSE IF s[d] = "]" THEN POk(JArr(Append(acc, val.v)), d + 1)
         ELSE PFail))

\* serde_json::from_str: one value, then only whitespace
from_str(s) ==
    Bind(ParseValue(s, 1), LAMBDA r :
    IF r.ok /\ SkipWs(s, r.pos) = Len(s) + 1 THEN r ELSE PFail)

\* ------------------------------------------------------------------------
\* parse_json_object: whole text first, then the slice from the first "{"
\* to the last "}".  The slice raw[start..=end] aborts when the last "}"
\* lies more than one position before the first "{".
\* ------------------------------------------------------------------------
JOk(v)    == [kind |-> "Ok",    v |-> v,     err |-> ""]
JErr(e)   == [kind |-> "Err",   v |-> JNull, err |-> e]
JPanic    == [kind |-> "Panic", v |-> JNull, err |-> "slice index out of range"]

\* the slice ended at the first "}" instead of the last
parse_json_object_first_close(raw) ==
    Bind(from_str(raw), LAMBDA whole :
    IF whole.ok THEN JOk(whole.v)
    ELSE LET start == FindChar(raw, "{")
             end   == FindChar(raw, "}")
         IN IF start = 0 THEN JErr("No JSON object found in model output")
            ELSE IF end = 0 THEN JErr("No JSON object found in model output")
            ELSE IF start > end + 1 THEN JPanic
            ELSE Bind(from_str(SubSeq(raw, start, end)), LAMBDA slice :
                 IF slice.ok THEN JOk(slice.v)
                 ELSE JErr("Failed to parse JSON decision")))

parse_json_object(raw) ==
    Bind(from_str(raw), LAMBDA whole :
    IF whole.ok THEN JOk(whole.v)
    ELSE LET start == FindChar(raw, "{")
             end   == RFindChar(raw, "}")
         IN IF start = 0 THEN JErr("No JSON object found in model output")
            ELSE IF end = 0 THEN JErr("No JSON object found in model output")
            ELSE IF start > end + 1 THEN JPanic
            ELSE Bind(from_str(SubSeq(raw, start, end)), LAMBDA slice :
                 IF slice.ok THEN JOk(slice.v)
                 ELSE JErr("Failed to parse JSON decision")))

\* ------------------------------------------------------------------------
\* DecisionEnvelope and its serde deserialisation (serde_json::from_value)
\* ------------------------------------------------------------------------
k_action    == <<"a","c","t","i","o","n">>
k_name      == <<"n","a","m","e">>
k_arguments == <<"a","r","g","u","m","e","n","t","s">>
k_answer    == <<"a","n","s","w","e","r">>
k_uri       == <<"u","r","i">>
k_query     == <<"q","u","e","r","y">>
k_final     == <<"f","i","n","a","l">>
k_text      == <<"t","e","x","t">>
k_response  == <<"r","e","s","p","o","n","s","e">>
k_retrieve  == <<"r","e","t","r","i","e","v","e">>
k_tool      == <<"t","o","o","l">>
k_prompt    == <<"p","r","o","m","p","t">>
k_resource  == <<"r","e","s","o","u","r","c","e">>

EnvErr == [ok |-> FALSE, action |-> <<>>, name |-> None, arguments |-> JNull,
           answer |-> None, uri |-> None]

\* a field of type Option<String>: null or absent is None, text is Some,
\* anything else is a type error
OptStringOk(v) == v.t \in {"null", "str"}
OptString(v) == IF v.t = "str" THEN Some(v.s) ELSE None

\* the value of field number n (array form) or key k (object form);
\* absent fields take their serde default, which is Value::Null
FieldOf(data, k, n) ==
    IF data.t = "obj"
    THEN IF k \in DOMAIN data.m THEN data.m[k] ELSE JNull
    ELSE IF n <= Len(data.a) THEN data.a[n] ELSE JNull

DecisionEnvelope(data) ==
    IF data.t \notin {"obj", "arr"} THEN EnvErr
    ELSE IF data.t = "obj" /\ k_action \notin DOMAIN data.m THEN EnvErr
    ELSE IF data.t = "arr" /\ (Len(data.a) = 0 \/ Len(data.a) > 5) THEN EnvErr
    ELSE LET action    == FieldOf(data, k_action, 1)
             name      == FieldOf(data, k_name, 2)
             arguments == FieldOf(data, k_arguments, 3)
             answer    == FieldOf(data, k_answer, 4)
             uri       == FieldOf(data, k_uri, 5)
         IN IF /\ action.t = "str"
               /\ OptStringOk(name) /\ OptStringOk(answer) /\ OptStringOk(uri)
            THEN [ok |-> TRUE, action |-> action.s, name |-> OptString(name),
                  arguments |-> arguments, answer |-> OptString(answer),
                  uri |-> OptString(uri)]
            ELSE EnvErr

\* ------------------------------------------------------------------------
\* Decision and parse_decision
\* ------------------------------------------------------------------------
Retrieve(q)        == [kind |-> "Retrieve",     text |-> q, args |-> JNull, err |-> ""]
ToolCall(n, a)     == [kind |-> "ToolCall",     text |-> n, args |-> a,     err |-> ""]
PromptCall(n, a)   == [kind |-> "PromptCall",   text |-> n, args |-> a,     err |-> ""]
ResourceRead(u)    == [kind |-> "ResourceRead", text |-> u, args |-> JNull, err |-> ""]
FinalAnswer(x)     == [kind |-> "FinalAnswer",  text |-> x, args |-> JNull, err |-> ""]
DecisionErr(e, x)  == [kind |-> "Err",          text |-> x, args |-> JNull, err |-> e]
DecisionPanic      == [kind |-> "Panic",        text |-> <<>>, args |-> JNull,
                       err |-> "slice index out of range"]

DirectiveKinds == {"Retrieve", "ToolCall", "PromptCall", "ResourceRead", "FinalAnswer"}

\* Option::filter(|s| !s.trim().is_empty())
FilterNonBlank(o) == IF o.some /\ ~IsBlank(o.s) THEN o ELSE None

\* Option::or / Option::or_else
OrElse(o, p) == IF o.some THEN o ELSE p

\* the "resource" arm: the filter is applied once, after the three sources
\* have been combined
ResourceUri(env) ==
    FilterNonBlank(OrElse(OrElse(env.uri, GetStr(env.arguments, k_uri)), env.name))

\* the candidates with name tried before the members of arguments
FinalCandidates_name_early(env) ==
    << env.answer,
       AsStr(env.arguments),
       env.name,
       GetStr(env.arguments, k_answer),
       GetStr(env.arguments, k_final),
       GetStr(env.arguments, k_text),
       GetStr(env.arguments, k_response) >>

\* the "final" arm: every candidate is filtered before the next is tried
FinalCandidates(env) ==
    << env.answer,
       AsStr(env.arguments),
       GetStr(env.arguments, k_answer),
       GetStr(env.arguments, k_final),
       GetStr(env.arguments, k_text),
       GetStr(env.arguments, k_response),
       env.name >>

RECURSIVE FirstNonBlank(_, _)
FirstNonBlank(cands, i) ==
    IF i > Len(cands) THEN None
    ELSE OrElse(FilterNonBlank(cands[i]), FirstNonBlank(cands, i + 1))

FinalText(env) == FirstNonBlank(FinalCandidates(env), 1)

\* the arguments passed on as they are, null included
ArgsOrEmpty_keep_null(arguments) == arguments

\* json!({}) for null arguments
ArgsOrEmpty(arguments) == IF IsNull(arguments) THEN JObj(<<>>) ELSE arguments

\* the query accepted only when it is not blank
RetrieveQuery_nonblank(env) == FilterNonBlank(GetStr(env.arguments, k_query))

\* the "retrieve" arm: env.arguments.get("query").and_then(as_str)
RetrieveQuery(env) == GetStr(env.arguments, k_query)

\* the action compared without trimming
NormalAction_untrimmed(env) == ToLower(env.action)

\* env.action.trim().to_lowercase()
NormalAction(env) == ToLower(Trim(env.action))

DecisionOfEnvelope(env) ==
    LET action == NormalAction(env) IN
    CASE action = k_retrieve ->
             IF RetrieveQuery(env).some
             THEN Retrieve(RetrieveQuery(env).s)
             ELSE DecisionErr("retrieve action requires arguments.query", <<>>)
      [] action = k_tool ->
             IF FilterNonBlank(env.name).some
             THEN ToolCall(env.name.s, ArgsOrEmpty(env.arguments))
             ELSE DecisionErr("tool action requires name", <<>>)
      [] action = k_prompt ->
             IF FilterNonBlank(env.name).some
             THEN PromptCall(env.name.s, ArgsOrEmpty(env.arguments))
             ELSE DecisionErr("prompt action requires name", <<>>)
      [] action = k_resource ->
             IF ResourceUri(env).some
             THEN ResourceRead(ResourceUri(env).s)
             ELSE DecisionErr("resource action requires uri", <<>>)
      [] action = k_final ->
             IF FinalText(env).some
             THEN FinalAnswer(FinalText(env).s)
             ELSE DecisionErr("final action requires answer", <<>>)
      [] OTHER -> DecisionErr("unknown action", action)

parse_decision(raw) ==
    Bind(parse_json_object(raw), LAMBDA data :
    IF data.kind = "Panic" THEN DecisionPanic
    ELSE IF data.kind = "Err" THEN DecisionErr(data.err, <<>>)
    ELSE Bind(DecisionEnvelope(data.v), LAMBDA env :
         IF ~env.ok THEN DecisionErr("invalid decision envelope", <<>>)
         ELSE DecisionOfEnvelope(env)))

\* ------------------------------------------------------------------------
\* Argument normaliser (normalize_tool_args and its helpers)
\* ------------------------------------------------------------------------
\* byte order of the characters that occur in object keys
AsciiOrder ==
    <<"\t", "\n", " ", "\"", "'", ",", "-", "0", "1", "2", "3", "4", "5", "6",
      "7", "8", "9", ":", ";", "=", "A", "B", "C", "D", "E", "F", "G", "H", "I",
      "J", "K", "L", "M", "N", "O", "P", "Q", "R", "S", "T", "U", "V", "W", "X",
      "Y", "Z", "[", "]", "_", "a", "b", "c", "d", "e", "f", "g", "h", "i", "j",
      "k", "l", "m", "n", "o", "p", "q", "r", "s", "t", "u", "v", "w", "x", "y",
      "z", "{", "}">>

CharRank(c) ==
    IF \E i \in 1..Len(AsciiOrder) : AsciiOrder[i] = c
    THEN CHOOSE i \in 1..Len(AsciiOrder) : AsciiOrder[i] = c
    ELSE 0

\* String ordering of the keys of a serde_json Map (a BTreeMap)
KeyLess(x, y) ==
    \/ \E i \in 1..Len(x) :
          /\ i <= Len(y)
          /\ SubSeq(x, 1, i - 1) = SubSeq(y, 1, i - 1)
          /\ CharRank(x[i]) < CharRank(y[i])
    \/ Len(x) < Len(y) /\ SubSeq(y, 1, Len(x)) = x

\* str::find(needle): 1-based index of the first occurrence, 0 for None
FindSub(s, needle) ==
    IF Contains(s, needle)
    THEN CHOOSE i \in 1..(Len(s) - Len(needle) + 1) :
             /\ SubSeq(s, i, i + Len(needle) - 1) = needle
             /\ \A j \in 1..(i-1) : SubSeq(s, j, j + Len(needle) - 1) # needle
    ELSE 0

\* str::trim_matches(ch)
TrimMatches(s, ch) ==
    IF \A i \in 1..Len(s) : s[i] = ch THEN <<>>
    ELSE LET first == CHOOSE i \in 1..Len(s) :
                          s[i] # ch /\ \A j \in 1..(i-1) : s[j] = ch
             last  == CHOOSE i \in 1..Len(s) :
                          s[i] # ch /\ \A j \in (i+1)..Len(s) : s[j] = ch
         IN SubSeq(s, first, last)

\* String::truncate at the first occurrence of delim, if any
TruncateAt(s, delim) ==
    IF FindChar(s, delim) = 0 THEN s ELSE SubSeq(s, 1, FindChar(s, delim) - 1)

clean_city_candidate(raw) ==
    LET out0 == TrimMatches(TrimMatches(Trim(raw), Quote), "'")
        out1 == TruncateAt(TruncateAt(TruncateAt(out0, ","), ";"), "\n")
    IN TrimMatches(TrimMatches(Trim(out1), Quote), "'")

take_after_case_insensitive(text, needle) ==
    LET idx == FindSub(ToLower(text), ToLower(needle)) IN
    IF idx = 0 THEN None
    ELSE Some(SubSeq(text, idx + Len(needle), Len(text)))

CityPatterns ==
    << <<"c","i","t","y","=">>, <<"c","i","t","y",":">>,
       <<" ","i","n"," ">>, <<" ","f","o","r"," ">> >>

RECURSIVE InferFrom(_, _)
InferFrom(text, i) ==
    IF i > Len(CityPatterns) THEN None
    ELSE LET raw == take_after_case_insensitive(text, CityPatterns[i]) IN
         IF raw.some /\ clean_city_candidate(raw.s) # <<>>
         THEN Some(clean_city_candidate(raw.s))
         ELSE InferFrom(text, i + 1)

infer_city_from_text(text) == InferFrom(text, 1)

k_city == <<"c","i","t","y">>
DirectKeys ==
    << k_city, <<"l","o","c","a","t","i","o","n">>, <<"p","l","a","c","e">>,
       <<"t","o","w","n">>, k_query >>

\* a key holds a city when its value is a string that is not blank
HoldsCity(obj, k) == k \in DOMAIN obj /\ obj[k].t = "str" /\ ~IsBlank(obj[k].s)

\* only a string-shaped arguments value is read, no key of an object
extract_city_from_args_string_only(args) ==
    IF args.t = "str" /\ ~IsBlank(args.s) THEN Some(Trim(args.s)) ELSE None

extract_city_from_args(args) ==
    IF args.t = "str" /\ ~IsBlank(args.s) THEN Some(Trim(args.s))
    ELSE IF args.t # "obj" THEN None
    ELSE LET obj == args.m
             direct == {i \in 1..Len(DirectKeys) : HoldsCity(obj, DirectKeys[i])}
             loose == {k \in DOMAIN obj :
                          Contains(ToLower(k), k_city) /\ HoldsCity(obj, k)}
         IN IF direct # {}
            THEN LET i == CHOOSE i \in direct : \A j \in direct : i <= j
                 IN Some(Trim(obj[DirectKeys[i]].s))
            ELSE IF loose # {}
            THEN LET k == CHOOSE k \in loose :
                              \A k2 \in loose : k2 = k \/ KeyLess(k, k2)
                 IN Some(Trim(obj[k].s))
            ELSE None

k_fetch_weather == <<"f","e","t","c","h","-","w","e","a","t","h","e","r">>

\* every name taken for the recognized tool
eq_ignore_ascii_case_any_name(a, b) == TRUE

\* str::eq_ignore_ascii_case
eq_ignore_ascii_case(a, b) == ToLower(a) = ToLower(b)

\* ------------------------------------------------------------------------
\* AgentState: transcript, retrieved-context log, step counter
\* ------------------------------------------------------------------------
Content(kind, q, r) == [kind |-> kind, q |-> q, r |-> r]
Message(role, c) == [role |-> role, content |-> c]

\* AgentState::append_user / append_system: transcript only
append_user(s, c) ==
    [conversation |-> Append(s.conversation, Message("user", c)),
     context_log  |-> s.context_log]

\* the turn pushed with the role of the user
append_system_as_user(s, c) ==
    [conversation |-> Append(s.conversation, Message("user", c)),
     context_log  |-> s.context_log]

append_system(s, c) ==
    [conversation |-> Append(s.conversation, Message("system", c)),
     context_log  |-> s.context_log]

\* AgentState::append_context / append_tool: transcript and context log
append_context(s, c) ==
    [conversation |-> Append(s.conversation, Message("system", c)),
     context_log  |-> Append(s.context_log, c)]

\* the tool-result turn pushed to the transcript only
append_tool_unlogged(s, c) ==
    [conversation |-> Append(s.conversation, Message("tool", c)),
     context_log  |-> s.context_log]

append_tool(s, c) ==
    [conversation |-> Append(s.conversation, Message("tool", c)),
     context_log  |-> Append(s.context_log, c)]

latest_user_query(conv) ==
    IF \E i \in 1..Len(conv) : conv[i].role = "user"
    THEN LET i == CHOOSE i \in 1..Len(conv) :
                      /\ conv[i].role = "user"
                      /\ \A j \in (i+1)..Len(conv) : conv[j].role # "user"
         IN Some(conv[i].content.q)
    ELSE None

RagOnlyTriggers ==
    { <<"u","s","e"," ","r","a","g">>,
      <<"r","a","g"," ","o","n","l","y">>,
      <<"o","n","l","y"," ","r","a","g">>,
      <<"d","o"," ","n","o","t"," ","u","s","e"," ","m","c","p">>,
      <<"d","o","n","'","t"," ","u","s","e"," ","m","c","p">>,
      <<"w","i","t","h","o","u","t"," ","m","c","p">> }

\* the trigger test without case folding
is_rag_only_query_case_sensitive(q) == \E t \in RagOnlyTriggers : Contains(q, t)

is_rag_only_query(q) == \E t \in RagOnlyTriggers : Contains(ToLower(q), t)

\* the mode read from the first turn instead of the latest user turn
is_rag_only_state_first_turn(conv) ==
    Len(conv) > 0 /\ conv[1].role = "user" /\ is_rag_only_query(conv[1].content.q)

is_rag_only_state(conv) ==
    latest_user_query(conv).some /\ is_rag_only_query(latest_user_query(conv).s)

\* the directive's own text used as the query, user turn or not
fallback_query_directive_only(conv, fallback) == fallback

\* latest_user_query(state).unwrap_or_else(|| fallback.clone())
fallback_query(conv, fallback) ==
    IF latest_user_query(conv).some THEN latest_user_query(conv).s ELSE fallback

\* the city written into the arguments, their other keys kept
city_arguments_merged(args, city) ==
    IF args.t = "obj"
    THEN JObj([k \in DOMAIN args.m \cup {k_city} |->
                  IF k = k_city THEN JStr(city) ELSE args.m[k]])
    ELSE JObj((k_city :> JStr(city)))

\* json!({ "city": city }), which replaces the arguments
city_arguments(args, city) == JObj((k_city :> JStr(city)))

\* the arguments passed on as the model wrote them
normalize_tool_args_skipped(name, args, conv) == args

normalize_tool_args(name, args, conv) ==
    IF ~eq_ignore_ascii_case(name, k_fetch_weather) THEN args
    ELSE LET fromText == IF latest_user_query(conv).some
                         THEN infer_city_from_text(latest_user_query(conv).s)
                         ELSE None
             city == OrElse(extract_city_from_args(args), fromText)
         IN IF city.some THEN city_arguments(args, city.s) ELSE args

\* a failed retrieval recorded as a context turn
record_retrieve_error_as_context(s, query, outcome, okKind, errKind) ==
    IF outcome.ok
    THEN append_context(s, Content(okKind, query, outcome.text))
    ELSE append_context(s, Content(errKind, <<>>, outcome.text))

\* the outcome of run_retrieve recorded as a turn: a context turn on
\* success, a tool turn on failure
record_retrieve(s, query, outcome, okKind, errKind) ==
    IF outcome.ok
    THEN append_context(s, Content(okKind, query, outcome.text))
    ELSE append_tool(s, Content(errKind, <<>>, outcome.text))

\* a failed read recorded without the retrieval fallback
record_resource_read_no_fallback(s, uri, rpc, out) ==
    IF rpc.ok
    THEN append_tool(s, Content("resource_result", uri, rpc.text))
    ELSE append_tool(s, Content("resource_read_failed", uri, rpc.text))

\* match mcp.read_resource(&uri): the result turn, or the failure turn
\* followed by the outcome of the retrieval fallback
record_resource_read(s, uri, rpc, out) ==
    IF rpc.ok
    THEN append_tool(s, Content("resource_result", uri, rpc.text))
    ELSE LET failed == append_tool(s, Content("resource_read_failed", uri, rpc.text))
         IN record_retrieve(failed, fallback_query(failed.conversation, uri), out,
                            "rag_fallback_read_failed",
                            "rag_fallback_error_read_failed")

\* the loop condition written with <= : one iteration too many
loop_continues_inclusive(step, limit) == step <= limit

\* the loop condition stopping one step early
loop_continues_early(step, limit) == step + 1 < limit

\* while state.current_step < state.max_steps
loop_continues(step, limit) == step < limit

\* ------------------------------------------------------------------------
\* Inputs: questions, raw model outputs, collaborator outcomes
\* ------------------------------------------------------------------------
Quoted(x) == <<Quote>> \o x \o <<Quote>>
Member(k, v) == Quoted(k) \o <<":">> \o v

RECURSIVE JoinMembers(_)
JoinMembers(ms) ==
    IF ms = <<>> THEN <<>>
    ELSE IF Len(ms) = 1 THEN ms[1]
    ELSE ms[1] \o <<",">> \o JoinMembers(Tail(ms))

Object(ms) == <<"{">> \o JoinMembers(ms) \o <<"}">>

q_plain    == <<"h","i">>
q_rag_only == <<"U","s","e"," ","R","A","G"," ","o","n","l","y">>
q_city     == <<"w"," ","i","n"," ","P","u","n","e">>
Questions  == {q_plain, q_rag_only, q_city}

t_q   == <<"q">>
t_ok  == <<"o","k">>
t_uri == <<"c",":","a">>

raw_retrieve == Object(<< Member(k_action, Quoted(k_retrieve)),
                          Member(k_arguments, Object(<<Member(k_query, Quoted(t_q))>>)) >>)
raw_tool     == Object(<< Member(k_action, Quoted(k_tool)),
                          Member(k_name, Quoted(k_fetch_weather)) >>)
raw_prompt   == Object(<< Member(k_action, Quoted(k_prompt)),
                          Member(k_name, Quoted(k_fetch_weather)),
                          Member(k_arguments, Object(<<Member(k_city, Quoted(<<" ", "X">>))>>)) >>)
raw_resource == Object(<< Member(k_action, Quoted(k_resource)),
                          Member(k_uri, Quoted(t_uri)) >>)
raw_final    == <<"a", ":", "\n">> \o
                Object(<< Member(k_action, Quoted(k_final)),
                          Member(k_answer, Quoted(t_ok)) >>) \o <<"\n">>
raw_garbage  == <<"o", "k">>
raw_reversed == <<"}", " ", "{">>

RawOutputs == {raw_retrieve, raw_tool, raw_prompt, raw_resource, raw_final,
               raw_garbage, raw_reversed}

\* the decision parsed from each raw output
Parsed == [r \in RawOutputs |-> parse_decision(r)]

Outcome(ok, text) == [ok |-> ok, text |-> text]
RetrieveOutcomes == {Outcome(TRUE, "context"), Outcome(FALSE, "retrieve error")}
RpcOutcomes      == {Outcome(TRUE, "value"), Outcome(FALSE, "rpc error")}
\* generate_answer: a transport error, a blank answer, or an answer
AnswerOutcomes   == {[ok |-> FALSE, text |-> <<>>],
                     [ok |-> TRUE,  text |-> <<" ", "\n">>],
                     [ok |-> TRUE,  text |-> <<" ", "o", "k", " ">>]}

\* ------------------------------------------------------------------------
\* build_hybrid_system_prompt.  The rendered text is kept as the sequence
\* of the pieces format! and push_str put together: the configured
\* prompt, the headings, one piece per listed item, the closing notice.
\* ------------------------------------------------------------------------
McpCapabilities(tools, prompts, resources, diagnostics) ==
    [tools |-> tools, prompts |-> prompts, resources |-> resources,
     diagnostics |-> diagnostics]

\* Vec::join(sep) of the pieces given per item
RECURSIVE JoinPieces(_, _)
JoinPieces(items, sep) ==
    IF items = <<>> THEN <<>>
    ELSE IF Len(items) = 1 THEN items[1]
    ELSE items[1] \o <<sep>> \o JoinPieces(Tail(items), sep)

list_or_none(items) ==
    IF items = <<>> THEN <<"- (none)">>
    ELSE JoinPieces([i \in 1..Len(items) |-> <<"- ", items[i]>>], "\n")

unavailable_notice ==
    "\n\nMCP is currently unavailable. Do not choose tool/prompt/resource. Use retrieve and final only."

no_capabilities_notice ==
    "\n\nMCP is configured but capability discovery returned no tools/prompts/resources. Prefer retrieve/final unless user explicitly asks for MCP, and inspect MCP diagnostics."

\* the closing notice chosen from the lists alone, whatever the flag
closing_notice_ignoring_flag(caps, enabled) ==
    IF caps.tools = <<>> /\ caps.prompts = <<>> /\ caps.resources = <<>>
    THEN <<no_capabilities_notice>>
    ELSE IF ~enabled THEN <<unavailable_notice>>
    ELSE <<>>

\* if !mcp_enabled { .. } else if all three lists are empty { .. }
closing_notice(caps, enabled) ==
    IF ~enabled THEN <<unavailable_notice>>
    ELSE IF caps.tools = <<>> /\ caps.prompts = <<>> /\ caps.resources = <<>>
    THEN <<no_capabilities_notice>>
    ELSE <<>>

build_hybrid_system_prompt(hybrid_system_prompt, caps, enabled) ==
    <<hybrid_system_prompt, "\n\nAvailable Tools:\n">> \o list_or_none(caps.tools)
    \o <<"\n\nAvailable Prompts:\n">> \o list_or_none(caps.prompts)
    \o <<"\n\nAvailable Resources:\n">> \o list_or_none(caps.resources)
    \o (IF caps.diagnostics # <<>>
        THEN <<"\n\nMCP Diagnostics:\n">>
             \o JoinPieces([i \in 1..Len(caps.diagnostics) |-> <<caps.diagnostics[i]>>], "\n")
        ELSE <<>>)
    \o closing_notice(caps, enabled)

\* cfg.hybrid_system_prompt
cfg_hybrid_system_prompt == "You are a hybrid AI agent."

\* the diagnostics discover_capabilities collects: one per failed listing
ToolsDiag == "tools/list error: e"
PromptsDiag == "prompts/list error: e"
ResourcesDiag == "resources/list error: e"

\* what discovery returns in a session: every listing fails without a
\* transport; with one, the listings succeed (here with nothing or with
\* one tool) or the tools listing fails
SessionCaps(enabled) ==
    IF ~enabled
    THEN {McpCapabilities(<<>>, <<>>, <<>>, <<ToolsDiag, PromptsDiag, ResourcesDiag>>)}
    ELSE {McpCapabilities(<<>>, <<>>, <<>>, <<>>),
          McpCapabilities(<<"fetch-weather">>, <<>>, <<>>, <<>>)}

\* ------------------------------------------------------------------------
\* State
\* ------------------------------------------------------------------------
VARIABLES
    cfg_max_steps,    \* cfg.agent_max_steps
    question,         \* the question of the session
    mcp_enabled,      \* McpClient::is_enabled
    pc,               \* "idle", "loop", "done" (returned), "aborted" (panicked)
    conversation,     \* AgentState.conversation
    current_step,     \* AgentState.current_step
    max_steps,        \* AgentState.max_steps
    context_log,      \* AgentState.context_log
    result,           \* the value run_agent returned
    decision,         \* the decision parsed in the latest iteration
    requests,         \* number of generate_json requests made
    sent,             \* the messages of the latest generate_json request
    chat,             \* the latest ChatRequest: its format and messages
    forced,           \* generate_answer outcomes of the force_final_answer calls
    retrieve_calls,   \* queries passed to run_retrieve, in order
    rpc_calls,        \* call_tool / get_prompt / read_resource calls, in order
    p_family,         \* parser run: the family the input text is drawn from
    p_cands,          \* parser run: the field values the text was written from
    p_pre,            \* parser run: text before the object
    p_body,           \* parser run: the object text
    p_suf,            \* parser run: text after the object
    p_pc,             \* parser run: "input", "bare", "parsed"
    p_bare,           \* parse_decision(p_body)
    p_out,            \* parse_decision(p_pre + p_body + p_suf)
    b_pc,             \* prompt run: "input", "built"
    b_enabled,        \* prompt run: the mcp_enabled argument
    b_caps,           \* prompt run: the McpCapabilities argument
    b_prompt,         \* build_hybrid_system_prompt(cfg, b_caps, b_enabled)
    n_pc,             \* normalizer run: "input", "done"
    n_name,           \* normalizer run: the tool name
    n_args,           \* normalizer run: the arguments value
    n_conv,           \* normalizer run: the transcript of the state
    n_out,            \* normalize_tool_args(n_name, n_args, state)
    c_pc,             \* chunk_text: "input", "loop", "done"
    c_text,           \* chunk_text: chars, the characters of the text
    c_size,           \* chunk_text: size
    c_overlap,        \* chunk_text: overlap
    c_start,          \* chunk_text: start
    c_chunks,         \* chunk_text: chunks
    a_pc,             \* App: "run", "exited" (run_app returned), "aborted"
    a_input,          \* App.input, as UTF-8 bytes
    a_cursor,         \* App.cursor
    a_mode,           \* App.input_mode
    a_loading,        \* App.is_loading
    a_spinner,        \* App.spinner_idx
    a_last_submit,    \* App.last_submit is Some
    a_rag,            \* App.rag_context / rag_answer: what they show
    a_cmd_out,        \* App.last_command_output is Some
    a_jobs,           \* spawn_blocking closures that have not sent yet
    a_channel         \* responses sent on tx and not yet received

agent_vars == <<cfg_max_steps, question, mcp_enabled, pc, conversation,
                current_step, max_steps, context_log, result, decision,
                requests, sent, chat, forced, retrieve_calls, rpc_calls>>

parser_vars == <<p_family, p_cands, p_pre, p_body, p_suf, p_pc, p_bare, p_out>>

prompt_vars == <<b_pc, b_enabled, b_caps, b_prompt>>

norm_vars == <<n_pc, n_name, n_args, n_conv, n_out>>

chunk_vars == <<c_pc, c_text, c_size, c_overlap, c_start, c_chunks>>

app_vars == <<a_pc, a_input, a_cursor, a_mode, a_loading, a_spinner,
              a_last_submit, a_rag, a_cmd_out, a_jobs, a_channel>>

vars == <<cfg_max_steps, question, mcp_enabled, pc, conversation,
          current_step, max_steps, context_log, result, decision,
          requests, sent, chat, forced, retrieve_calls, rpc_calls,
          p_family, p_cands, p_pre, p_body, p_suf, p_pc, p_bare, p_out,
          b_pc, b_enabled, b_caps, b_prompt,
          n_pc, n_name, n_args, n_conv, n_out,
          c_pc, c_text, c_size, c_overlap, c_start, c_chunks,
          a_pc, a_input, a_cursor, a_mode, a_loading, a_spinner,
          a_last_submit, a_rag, a_cmd_out, a_jobs, a_channel>>

\* generate_chat: the ChatRequest posted, format "json" or none
ChatRequest(messages, format) == [messages |-> messages, format |-> format]

NoChat == ChatRequest(<<>>, "no request")

\* generate_json: generate_chat(cfg, messages, Some("json"))
generate_json(messages) == ChatRequest(messages, "json")

\* generate_answer: generate_chat(cfg, messages, None)
generate_answer(messages) == ChatRequest(messages, "none")

\* the pieces of AgentState::context_text: the placeholder, or the entries
\* of the log joined by a blank line
NoContextFound == Content("(no context found)", <<>>, "")
BlankLine == Content("\n\n", <<>>, "")

\* the log entries put one after the other, nothing between them
context_text_unseparated(log) == IF log = <<>> THEN <<NoContextFound>> ELSE log

context_text(log) ==
    IF log = <<>> THEN <<NoContextFound>>
    ELSE JoinPieces([i \in 1..Len(log) |-> <<log[i]>>], BlankLine)

\* the user turn of the forced-final request: the fixed wording around
\* the context text and the question
ForcedFinalContent(context, q) ==
    [kind |-> "forced_final_prompt", context |-> context, q |-> q]

\* the two messages force_final_answer builds
force_final_messages(conv, log) ==
    << Message("system", Content("system_prompt", <<>>, "")),
       Message("user", ForcedFinalContent(context_text(log),
                   IF latest_user_query(conv).some
                   THEN latest_user_query(conv).s ELSE <<>>)) >>

NoDecision == [kind |-> "None", text |-> <<>>, args |-> JNull, err |-> ""]
NoResult   == [kind |-> "none", text |-> <<>>, err |-> "", limit |-> 0, nested |-> ""]
ResultOk(answer) ==
    [kind |-> "Ok", text |-> answer, err |-> "", limit |-> 0, nested |-> ""]
\* the failure without the step limit
ResultErr_limit_dropped(e, limit, nested) ==
    [kind |-> "Err", text |-> <<>>, err |-> e, limit |-> 0, nested |-> nested]

ResultErr(e, limit, nested) ==
    [kind |-> "Err", text |-> <<>>, err |-> e, limit |-> limit, nested |-> nested]

Rpc(op, name, args, ok) == [op |-> op, name |-> name, args |-> args, ok |-> ok]
Retrieval(query, out) == [query |-> query, out |-> out]

\* AgentState::new(cfg.agent_max_steps), no session started yet
AgentInit ==
    /\ cfg_max_steps \in 0..MaxSteps
    /\ question \in Questions
    /\ mcp_enabled \in BOOLEAN
    /\ pc = "idle"
    /\ conversation = <<>>
    /\ current_step = 0
    /\ max_steps = cfg_max_steps
    /\ context_log = <<>>
    /\ result = NoResult
    /\ decision = NoDecision
    /\ requests = 0
    /\ sent = <<>>
    /\ chat = NoChat
    /\ forced = <<>>
    /\ retrieve_calls = <<>>
    /\ rpc_calls = <<>>

state == [conversation |-> conversation, context_log |-> context_log]

\* the configured limit taken as it is
clamp_steps_unclamped(n) == n

\* usize::max(1) applied to the configured limit
clamp_steps(n) == IF n < 1 THEN 1 ELSE n

\* the turns answer_query_hybrid seeds before the loop
seed_turns(q, caps, enabled) ==
    LET s0 == [conversation |-> <<>>, context_log |-> <<>>]
        s1 == append_system(s0, Content("hybrid_system_prompt",
                  build_hybrid_system_prompt(cfg_hybrid_system_prompt, caps, enabled), ""))
        s2 == IF is_rag_only_query(q)
              THEN append_system(s1, Content("rag_only_notice", <<>>, ""))
              ELSE s1
    IN append_user(s2, Content("user_question", q, ""))

\* answer_query_hybrid up to its call of run_agent
answer_query_hybrid ==
    /\ UNCHANGED <<parser_vars, prompt_vars, norm_vars, chunk_vars, app_vars>>
    /\ pc = "idle"
    /\ pc' = "loop"
    /\ max_steps' = clamp_steps(cfg_max_steps)
    /\ \E caps \in SessionCaps(mcp_enabled) :
          /\ conversation' = seed_turns(question, caps, mcp_enabled).conversation
          /\ context_log' = seed_turns(question, caps, mcp_enabled).context_log
    /\ UNCHANGED <<cfg_max_steps, question, mcp_enabled, current_step, result,
                   decision, requests, sent, chat, forced, retrieve_calls,
                   rpc_calls>>

\* a caller of the public run_agent with a state it built itself:
\* AgentState::new(n), optionally followed by append_user
run_agent_direct ==
    /\ UNCHANGED <<parser_vars, prompt_vars, norm_vars, chunk_vars, app_vars>>
    /\ pc = "idle"
    /\ pc' = "loop"
    /\ \E with_user \in BOOLEAN :
          conversation' =
              IF with_user
              THEN append_user(state, Content("user_question", question, "")).conversation
              ELSE conversation
    /\ UNCHANGED <<cfg_max_steps, question, mcp_enabled, current_step, max_steps,
                   context_log, result, decision, requests, sent, chat, forced,
                   retrieve_calls, rpc_calls>>

\* the request carrying the latest turn only
request_messages_latest_turn(conv) ==
    IF conv = <<>> THEN <<>> ELSE <<conv[Len(conv)]>>

\* generate_json(cfg, &state.conversation): the whole transcript is sent
request_messages(conv) == conv

InLoop == pc = "loop" /\ loop_continues(current_step, max_steps)

\* what every iteration that parsed a raw output and goes on to the next
\* iteration has in common
Iterate(d, st2) ==
    /\ decision' = d
    /\ requests' = requests + 1
    /\ sent' = request_messages(conversation)
    /\ chat' = generate_json(request_messages(conversation))
    /\ conversation' = st2.conversation
    /\ context_log' = st2.context_log
    /\ current_step' = current_step + 1
    /\ UNCHANGED <<cfg_max_steps, question, mcp_enabled, pc, max_steps, result,
                   forced>>

\* generate_json(...)? returns the transport error to the caller
GenerateJsonFails ==
    /\ UNCHANGED <<parser_vars, prompt_vars, norm_vars, chunk_vars, app_vars>>
    /\ InLoop
    /\ pc' = "done"
    /\ result' = ResultErr("generate_json failed", 0, "")
    /\ requests' = requests + 1
    /\ sent' = request_messages(conversation)
    /\ chat' = generate_json(request_messages(conversation))
    /\ decision' = NoDecision
    /\ UNCHANGED <<cfg_max_steps, question, mcp_enabled, conversation,
                   current_step, max_steps, context_log, forced,
                   retrieve_calls, rpc_calls>>

\* the slice in parse_json_object panics: the session is aborted
StepPanic ==
    /\ UNCHANGED <<parser_vars, prompt_vars, norm_vars, chunk_vars, app_vars>>
    /\ InLoop
    /\ \E raw \in RawOutputs :
          /\ Parsed[raw].kind = "Panic"
          /\ decision' = Parsed[raw]
    /\ pc' = "aborted"
    /\ requests' = requests + 1
    /\ sent' = request_messages(conversation)
    /\ chat' = generate_json(request_messages(conversation))
    /\ UNCHANGED <<cfg_max_steps, question, mcp_enabled, conversation,
                   current_step, max_steps, context_log, result, forced,
                   retrieve_calls, rpc_calls>>

StepParseFailure ==
    /\ UNCHANGED <<parser_vars, prompt_vars, norm_vars, chunk_vars, app_vars>>
    /\ InLoop
    /\ \E raw \in RawOutputs :
          LET d == Parsed[raw] IN
          /\ d.kind = "Err"
          /\ Iterate(d, append_system(state, Content("invalid_controller_json", d.text, d.err)))
    /\ UNCHANGED <<retrieve_calls, rpc_calls>>

StepRetrieve ==
    /\ UNCHANGED <<parser_vars, prompt_vars, norm_vars, chunk_vars, app_vars>>
    /\ InLoop
    /\ \E raw \in RawOutputs, out \in RetrieveOutcomes :
          LET d == Parsed[raw] IN
          /\ d.kind = "Retrieve"
          /\ retrieve_calls' = Append(retrieve_calls, Retrieval(d.text, out))
          /\ Iterate(d, record_retrieve(state, d.text, out,
                                        "rag_retrieve", "rag_retrieve_error"))
    /\ UNCHANGED rpc_calls

\* the branch shared by ToolCall, PromptCall and ResourceRead in
\* retrieval-only mode
RagOnlyFallback(d, out) ==
    LET q == fallback_query(conversation, d.text) IN
    /\ retrieve_calls' = Append(retrieve_calls, Retrieval(q, out))
    /\ rpc_calls' = rpc_calls
    /\ Iterate(d, record_retrieve(state, q, out, "rag_fallback_rag_only",
                                  "rag_fallback_error_rag_only"))

McpUnavailableNotice(d) ==
    /\ UNCHANGED <<retrieve_calls, rpc_calls>>
    /\ Iterate(d, append_system(state, Content("mcp_unavailable", <<>>, "")))

StepToolCall ==
    /\ UNCHANGED <<parser_vars, prompt_vars, norm_vars, chunk_vars, app_vars>>
    /\ InLoop
    /\ \E raw \in RawOutputs, out \in RetrieveOutcomes, rpc \in RpcOutcomes :
          LET d == Parsed[raw] IN
          /\ d.kind = "ToolCall"
          /\ IF is_rag_only_state(conversation) THEN RagOnlyFallback(d, out)
             ELSE IF ~mcp_enabled THEN McpUnavailableNotice(d)
             ELSE /\ rpc_calls' = Append(rpc_calls,
                        Rpc("call_tool", d.text,
                            normalize_tool_args(d.text, d.args, conversation),
                            rpc.ok))
                  /\ retrieve_calls' = retrieve_calls
                  /\ Iterate(d, append_tool(state,
                        Content(IF rpc.ok THEN "tool_result" ELSE "tool_call_failed",
                                d.text, rpc.text)))

StepPromptCall ==
    /\ UNCHANGED <<parser_vars, prompt_vars, norm_vars, chunk_vars, app_vars>>
    /\ InLoop
    /\ \E raw \in RawOutputs, out \in RetrieveOutcomes, rpc \in RpcOutcomes :
          LET d == Parsed[raw] IN
          /\ d.kind = "PromptCall"
          /\ IF is_rag_only_state(conversation) THEN RagOnlyFallback(d, out)
             ELSE IF ~mcp_enabled THEN McpUnavailableNotice(d)
             ELSE /\ rpc_calls' = Append(rpc_calls, Rpc("get_prompt", d.text, d.args, rpc.ok))
                  /\ retrieve_calls' = retrieve_calls
                  /\ Iterate(d, append_tool(state,
                        Content(IF rpc.ok THEN "prompt_result" ELSE "prompt_fetch_failed",
                                d.text, rpc.text)))

StepResourceRead ==
    /\ UNCHANGED <<parser_vars, prompt_vars, norm_vars, chunk_vars, app_vars>>
    /\ InLoop
    /\ \E raw \in RawOutputs, out \in RetrieveOutcomes, rpc \in RpcOutcomes :
          LET d == Parsed[raw]
              q == fallback_query(conversation, d.text)
          IN
          /\ d.kind = "ResourceRead"
          /\ IF is_rag_only_state(conversation) THEN RagOnlyFallback(d, out)
             ELSE IF ~mcp_enabled
             THEN /\ retrieve_calls' = Append(retrieve_calls, Retrieval(q, out))
                  /\ rpc_calls' = rpc_calls
                  /\ Iterate(d, record_retrieve(state, q, out,
                        "rag_fallback_mcp_disabled", "rag_fallback_error_mcp_disabled"))
             ELSE /\ rpc_calls' = Append(rpc_calls,
                                         Rpc("read_resource", d.text, JNull, rpc.ok))
                  /\ retrieve_calls' = IF rpc.ok THEN retrieve_calls
                                       ELSE Append(retrieve_calls, Retrieval(q, out))
                  /\ Iterate(d, record_resource_read(state, d.text, rpc, out))

\* Decision::FinalAnswer(answer) => return Ok(answer)
StepFinalAnswer ==
    /\ UNCHANGED <<parser_vars, prompt_vars, norm_vars, chunk_vars, app_vars>>
    /\ InLoop
    /\ \E raw \in RawOutputs :
          LET d == Parsed[raw] IN
          /\ d.kind = "FinalAnswer"
          /\ decision' = d
          /\ result' = ResultOk(d.text)
    /\ pc' = "done"
    /\ requests' = requests + 1
    /\ sent' = request_messages(conversation)
    /\ chat' = generate_json(request_messages(conversation))
    /\ UNCHANGED <<cfg_max_steps, question, mcp_enabled, conversation,
                   current_step, max_steps, context_log, forced,
                   retrieve_calls, rpc_calls>>

\* the emptiness test looking at the first character only
force_final_answer_leading_space(out) ==
    IF ~out.ok THEN [ok |-> FALSE, text |-> <<>>, err |-> "generate_answer failed"]
    ELSE IF out.text = <<>> \/ out.text[1] \in WhiteSpace
    THEN [ok |-> FALSE, text |-> <<>>,
          err |-> "Model returned an empty fallback final answer"]
    ELSE [ok |-> TRUE, text |-> out.text, err |-> ""]

\* force_final_answer on the outcome of generate_answer
force_final_answer(out) ==
    IF ~out.ok THEN [ok |-> FALSE, text |-> <<>>, err |-> "generate_answer failed"]
    ELSE IF IsBlank(out.text)
    THEN [ok |-> FALSE, text |-> <<>>,
          err |-> "Model returned an empty fallback final answer"]
    ELSE [ok |-> TRUE, text |-> out.text, err |-> ""]

\* the loop condition is false: force_final_answer(...).or_else(...)
ForceFinal ==
    /\ UNCHANGED <<parser_vars, prompt_vars, norm_vars, chunk_vars, app_vars>>
    /\ pc = "loop"
    /\ ~loop_continues(current_step, max_steps)
    /\ \E out \in AnswerOutcomes :
          LET f == force_final_answer(out) IN
          /\ result' = IF f.ok THEN ResultOk(f.text)
                       ELSE ResultErr("Max steps exceeded", max_steps, f.err)
          /\ forced' = Append(forced, out)
    /\ chat' = generate_answer(force_final_messages(conversation, context_log))
    /\ pc' = "done"
    /\ UNCHANGED <<cfg_max_steps, question, mcp_enabled, conversation,
                   current_step, max_steps, context_log, decision, requests,
                   sent, retrieve_calls, rpc_calls>>

\* ------------------------------------------------------------------------
\* Runs of parse_decision on its own: the text is written from chosen
\* field values, or drawn from all short texts over braces and prose
\* ------------------------------------------------------------------------
null_text == <<"n","u","l","l">>

\* a member for an optional text field: present, null, or left out
OptMember(k, o, nulls) ==
    IF o.some THEN <<Member(k, Quoted(o.s))>>
    ELSE IF nulls THEN <<Member(k, null_text)>>
    ELSE <<>>

\* cands = <<answer, arguments (bare string), arguments.answer,
\*           arguments.final, arguments.text, arguments.response, name>>
FinalBody(cands, nulls) ==
    LET inner == OptMember(k_answer, cands[3], nulls)
                 \o OptMember(k_final, cands[4], nulls)
                 \o OptMember(k_text, cands[5], nulls)
                 \o OptMember(k_response, cands[6], nulls)
        arguments == IF cands[2].some THEN <<Member(k_arguments, Quoted(cands[2].s))>>
                     ELSE IF inner = <<>> THEN <<>>
                     ELSE <<Member(k_arguments, Object(inner))>>
    IN Object(<<Member(k_action, Quoted(k_final))>>
              \o OptMember(k_answer, cands[1], nulls)
              \o arguments
              \o OptMember(k_name, cands[7], nulls))

\* cands = <<uri, arguments.uri, name>>
ResourceBody(cands, nulls) ==
    LET inner == OptMember(k_uri, cands[2], nulls)
        arguments == IF inner = <<>> THEN <<>>
                     ELSE <<Member(k_arguments, Object(inner))>>
    IN Object(<<Member(k_action, Quoted(k_resource))>>
              \o OptMember(k_uri, cands[1], nulls)
              \o arguments
              \o OptMember(k_name, cands[3], nulls))

\* absent, blank, or a text that tells the candidates apart
Cand(letter) == {None, Some(<<" ">>), Some(<<letter>>)}
Src(letter)  == {None, Some(<<>>), Some(<<" ">>), Some(<<letter>>)}

FinalCands ==
    { c \in Cand("A") \X Cand("S") \X Cand("B") \X Cand("F") \X Cand("T")
             \X Cand("R") \X Cand("N") :
        c[2].some => \A i \in 3..6 : ~c[i].some }

ResourceCands == Src("U") \X Src("V") \X Src("N")

RECURSIVE TextsUpTo(_, _)
TextsUpTo(alphabet, n) ==
    IF n = 0 THEN {<<>>}
    ELSE LET shorter == TextsUpTo(alphabet, n - 1) IN
         shorter \cup {Append(t, c) : t \in shorter, c \in alphabet}

BraceAlphabet == {"{", "}", "x", " "}
BraceTexts == TextsUpTo(BraceAlphabet, MaxBraceLen)

raw_bare_final == Object(<< Member(k_action, Quoted(k_final)),
                            Member(k_answer, Quoted(t_ok)) >>)
raw_no_query   == Object(<< Member(k_action, Quoted(k_retrieve)),
                            Member(k_arguments, Object(<<>>)) >>)
WrapObjects == {raw_bare_final, raw_retrieve, raw_tool, raw_prompt,
                raw_resource, raw_no_query}
Prefixes == { <<>>, <<" ">>, <<"a", ":", "\n">>, <<"[", "x", "]", " ">>,
              <<"{">>, <<"s", "e", "t", " ", "{", "x", "}", " ">>, <<"[">> }
Suffixes == { <<>>, <<"\n">>, <<" ", "b">>, <<"}">>, <<"]">> }

\* a spelling of the action field: the text written, and the action it
\* is a spelling of (known) or the text the failure reports (unknown)
Spelling(text, canon, known) == [text |-> text, canon |-> canon, known |-> known]

ShapeActions ==
    { Spelling(k_retrieve, k_retrieve, TRUE),
      Spelling(<<" ","R","e","t","r","i","e","v","e"," ">>, k_retrieve, TRUE),
      Spelling(k_tool, k_tool, TRUE),
      Spelling(<<"T","O","O","L"," ">>, k_tool, TRUE),
      Spelling(k_prompt, k_prompt, TRUE),
      Spelling(<<" "," ","p","r","o","m","p","T">>, k_prompt, TRUE),
      Spelling(k_resource, k_resource, TRUE),
      Spelling(<<"R","e","s","o","u","r","c","e">>, k_resource, TRUE),
      Spelling(k_final, k_final, TRUE),
      Spelling(<<" ","F","I","N","A","L">>, k_final, TRUE),
      Spelling(<<>>, <<>>, FALSE),
      Spelling(<<" ","C","a","l","l"," ">>, <<"c","a","l","l">>, FALSE),
      Spelling(<<"t","o"," ","o","l">>, <<"t","o"," ","o","l">>, FALSE),
      Spelling(<<"f","i","n","a","l","s">>, <<"f","i","n","a","l","s">>, FALSE) }

ShapeNames == {None, Some(<<>>), Some(<<" ">>), Some(<<"n">>), Some(<<" ","n">>)}

\* an arguments member: the text written (empty when the member is left
\* out) and the value that text denotes
ArgShape(text, v) == [text |-> text, v |-> v]

ShapeArgs ==
    { ArgShape(<<>>, JNull),
      ArgShape(null_text, JNull),
      ArgShape(Quoted(<<"s">>), JStr(<<"s">>)),
      ArgShape(<<"7">>, JNum(<<"7">>)),
      ArgShape(<<"[">> \o Object(<<Member(k_query, Quoted(t_q))>>) \o <<"]">>,
               JArr(<<JObj(k_query :> JStr(t_q))>>)),
      ArgShape(Object(<<>>), JObj(<<>>)),
      ArgShape(Object(<<Member(k_query, null_text)>>), JObj(k_query :> JNull)),
      ArgShape(Object(<<Member(k_query, <<"7">>)>>), JObj(k_query :> JNum(<<"7">>))),
      ArgShape(Object(<<Member(k_query, Object(<<Member(k_query, Quoted(t_q))>>))>>),
               JObj(k_query :> JObj(k_query :> JStr(t_q)))),
      ArgShape(Object(<<Member(k_query, Quoted(<<>>))>>), JObj(k_query :> JStr(<<>>))),
      ArgShape(Object(<<Member(k_query, Quoted(t_q))>>), JObj(k_query :> JStr(t_q))),
      ArgShape(Object(<<Member(k_city, Quoted(<<"X">>))>>),
               JObj(k_city :> JStr(<<"X">>))) }

ShapeCands == ShapeActions \X ShapeNames \X ShapeArgs

\* cands = <<action spelling, name, arguments>>
ShapeBody(cands, nulls) ==
    Object(<<Member(k_action, Quoted(cands[1].text))>>
           \o OptMember(k_name, cands[2], nulls)
           \o (IF cands[3].text = <<>> THEN <<>>
               ELSE <<Member(k_arguments, cands[3].text)>>))

ParserIdle ==
    /\ p_family = "none"
    /\ p_cands = <<>>
    /\ p_pre = <<>>
    /\ p_body = <<>>
    /\ p_suf = <<>>
    /\ p_pc = "idle"
    /\ p_bare = NoDecision
    /\ p_out = NoDecision

ParserInit ==
    /\ p_pc = "input"
    /\ p_bare = NoDecision
    /\ p_out = NoDecision
    /\ \/ /\ p_family = "final"
          /\ p_cands \in FinalCands
          /\ \E nulls \in BOOLEAN : p_body = FinalBody(p_cands, nulls)
          /\ p_pre = <<>> /\ p_suf = <<>>
       \/ /\ p_family = "resource"
          /\ p_cands \in ResourceCands
          /\ \E nulls \in BOOLEAN : p_body = ResourceBody(p_cands, nulls)
          /\ p_pre = <<>> /\ p_suf = <<>>
       \/ /\ p_family = "wrap"
          /\ p_cands = <<>>
          /\ p_body \in WrapObjects
          /\ p_pre \in Prefixes /\ p_suf \in Suffixes
       \/ /\ p_family = "brace"
          /\ p_cands = <<>>
          /\ p_body \in BraceTexts
          /\ p_pre = <<>> /\ p_suf = <<>>
       \/ /\ p_family = "shape"
          /\ p_cands \in ShapeCands
          /\ \E nulls \in BOOLEAN : p_body = ShapeBody(p_cands, nulls)
          /\ p_pre = <<>> /\ p_suf = <<>>

\* no session is running while the parser is exercised on its own
AgentIdle ==
    /\ cfg_max_steps = 0
    /\ question = q_plain
    /\ mcp_enabled = FALSE
    /\ pc = "off"
    /\ conversation = <<>>
    /\ current_step = 0
    /\ max_steps = 0
    /\ context_log = <<>>
    /\ result = NoResult
    /\ decision = NoDecision
    /\ requests = 0
    /\ sent = <<>>
    /\ chat = NoChat
    /\ forced = <<>>
    /\ retrieve_calls = <<>>
    /\ rpc_calls = <<>>

\* parse_decision on the object text alone
ParseBare ==
    /\ p_pc = "input"
    /\ p_bare' = parse_decision(p_body)
    /\ p_pc' = "bare"
    /\ UNCHANGED <<p_family, p_cands, p_pre, p_body, p_suf, p_out>>
    /\ UNCHANGED <<agent_vars, prompt_vars, norm_vars, chunk_vars, app_vars>>

\* parse_decision on the object text inside its surrounding text
ParseEmbedded ==
    /\ p_pc = "bare"
    /\ p_out' = parse_decision(p_pre \o p_body \o p_suf)
    /\ p_pc' = "parsed"
    /\ UNCHANGED <<p_family, p_cands, p_pre, p_body, p_suf, p_bare>>
    /\ UNCHANGED <<agent_vars, prompt_vars, norm_vars, chunk_vars, app_vars>>

\* ------------------------------------------------------------------------
\* Runs of build_hybrid_system_prompt on its own, over every combination
\* of lists, diagnostics and availability flag
\* ------------------------------------------------------------------------
CapabilityLists == {<<>>, <<"a">>, <<"a", "b">>}
DiagnosticLists == {<<>>, <<ToolsDiag>>, <<ToolsDiag, PromptsDiag, ResourcesDiag>>}

PromptIdle ==
    /\ b_pc = "idle"
    /\ b_enabled = FALSE
    /\ b_caps = McpCapabilities(<<>>, <<>>, <<>>, <<>>)
    /\ b_prompt = <<>>

PromptInit ==
    /\ b_pc = "input"
    /\ b_enabled \in BOOLEAN
    /\ \E t \in CapabilityLists, p \in CapabilityLists, r \in CapabilityLists,
          d \in DiagnosticLists : b_caps = McpCapabilities(t, p, r, d)
    /\ b_prompt = <<>>

BuildPrompt ==
    /\ b_pc = "input"
    /\ b_prompt' = build_hybrid_system_prompt(cfg_hybrid_system_prompt, b_caps, b_enabled)
    /\ b_pc' = "built"
    /\ UNCHANGED <<b_enabled, b_caps>>
    /\ UNCHANGED <<agent_vars, parser_vars, norm_vars, chunk_vars, app_vars>>

\* ------------------------------------------------------------------------
\* normalize_tool_args on its own: tool names, arguments values and
\* transcripts the agent can hand it
\* ------------------------------------------------------------------------
name_upper == <<"F","e","t","c","h","-","W","E","A","T","H","E","R">>
name_other == <<"f","e","t","c","h">>
ToolNames == {k_fetch_weather, name_upper, name_other}

k_location == <<"l","o","c","a","t","i","o","n">>
k_place    == <<"p","l","a","c","e">>
k_town     == <<"t","o","w","n">>
k_my_city  == <<"m","y","C","i","t","y">>
k_city_id  == <<"C","I","T","Y","_","i","d">>
k_units    == <<"u","n","i","t","s">>

ArgumentValues ==
    { JNull,
      JNum(<<"7">>),
      JStr(<<>>),
      JStr(<<" ">>),
      JStr(<<"A">>),
      JStr(<<" ","A"," ">>),
      JObj(<<>>),
      JObj((k_units :> JStr(<<"C">>))),
      JObj((k_city :> JStr(<<"B">>)) @@ (k_units :> JStr(<<"C">>))),
      JObj((k_location :> JStr(<<" ","L">>)) @@ (k_query :> JStr(<<"Q">>))),
      JObj((k_city :> JStr(<<" ">>)) @@ (k_town :> JStr(<<"T">>))),
      JObj((k_city :> JNum(<<"7">>)) @@ (k_place :> JStr(<<"P">>))),
      JObj((k_my_city :> JStr(<<"M"," ">>))),
      JObj((k_my_city :> JStr(<<"M">>)) @@ (k_query :> JStr(<<"Q">>))),
      JObj((k_my_city :> JStr(<<"M">>)) @@ (k_city_id :> JStr(<<"D">>))),
      JObj((k_my_city :> JNum(<<"7">>)) @@ (k_city :> JStr(<<>>))) }

u_in_upper   == <<"w"," ","I","N"," "," ","Y"," ",","," ","z">>
u_city_eq    == <<"w"," ","i","n"," ","Y"," ","c","i","t","y","=","X",";","z">>
u_city_colon == <<"w"," ","f","o","r"," ","Z"," ","C","i","t","y",":","X","\n","z">>
u_skip_empty == <<"w"," ","i","n"," ",","," ","f","o","r"," ","Z">>
u_quoted     == <<"w"," ","i","n"," ","\"","Y","\"">>
u_single     == <<"w"," ","f","o","r"," ","'","Z"," ","'",";">>
u_nested     == <<"w"," ","i","n"," ","\""," ","'","Y","'"," ","\"">>
u_deep       == <<"w"," ","i","n"," ","'","\""," ","Y","\"","'">>
u_cue_only   == <<"w"," ","i","n"," ">>
u_twice      == <<"w"," ","i","n"," ","Y"," ","i","n"," ","Z">>

Utterances ==
    { q_plain, q_city, u_in_upper, u_city_eq, u_city_colon, u_skip_empty,
      u_quoted, u_single, u_nested, u_deep, u_cue_only, u_twice }

\* a transcript whose latest user turn is u, after an earlier user turn
TranscriptOf(u) ==
    << Message("user", Content("user_question", q_city, "")),
       Message("system", Content("invalid_controller_json", <<>>, "")),
       Message("user", Content("user_question", u, "")),
       Message("system", Content("mcp_unavailable", <<>>, "")) >>

\* a transcript without a user turn
NoUserTranscript ==
    << Message("system", Content("invalid_controller_json", <<>>, "")) >>

NormIdle ==
    /\ n_pc = "idle"
    /\ n_name = <<>>
    /\ n_args = JNull
    /\ n_conv = <<>>
    /\ n_out = JNull

NormInit ==
    /\ n_pc = "input"
    /\ n_name \in ToolNames
    /\ n_args \in ArgumentValues
    /\ n_conv \in {NoUserTranscript} \cup {TranscriptOf(u) : u \in Utterances}
    /\ n_out = JNull

Normalize ==
    /\ n_pc = "input"
    /\ n_out' = normalize_tool_args(n_name, n_args, n_conv)
    /\ n_pc' = "done"
    /\ UNCHANGED <<n_name, n_args, n_conv>>
    /\ UNCHANGED <<agent_vars, parser_vars, prompt_vars, chunk_vars, app_vars>>

\* ------------------------------------------------------------------------
\* The terminal application (src/src/main.rs): run_app's select! loop over
\* key events, spinner ticks and responses of background jobs.  The input
\* line is a String, modelled as its UTF-8 bytes; the cursor is an index
\* into them.  Scroll positions and the output focus are left out.
\* ------------------------------------------------------------------------
\* the characters typed: two of one byte, one of two bytes
Utf8 == [a |-> <<"a">>, space |-> <<" ">>, e_acute |-> <<"C3", "A9">>]
TypedChars == {Utf8.a, Utf8.space, Utf8.e_acute}
ContinuationBytes == {"A9"}

\* str::is_char_boundary
is_char_boundary(bytes, idx) ==
    \/ idx = 0
    \/ idx = Len(bytes)
    \/ idx < Len(bytes) /\ bytes[idx + 1] \notin ContinuationBytes

\* the bytes of the character that starts at idx (0-based)
CharLenAt(bytes, idx) ==
    IF idx + 2 <= Len(bytes) /\ bytes[idx + 2] \in ContinuationBytes THEN 2 ELSE 1

\* String::insert(idx, c) where idx is a character boundary
InsertAt(bytes, idx, c) ==
    SubSeq(bytes, 1, idx) \o c \o SubSeq(bytes, idx + 1, Len(bytes))

\* String::remove(idx) where a character starts at idx
RemoveAt(bytes, idx) ==
    SubSeq(bytes, 1, idx) \o SubSeq(bytes, idx + CharLenAt(bytes, idx) + 1, Len(bytes))

\* submit returns at once whatever is_loading says
submit_blocked_blank_only(input, loading) == IsBlank(input)

\* if self.input.trim().is_empty() || self.is_loading { return; }
submit_blocked(input, loading) == IsBlank(input) \/ loading

\* enum Response
Responses == {"rag_ok", "rag_err", "index_ok", "index_err", "command"}
JobResponses(job) ==
    CASE job = "rag" -> {"rag_ok", "rag_err"}
      [] job = "index" -> {"index_ok", "index_err"}
      [] job = "command" -> {"command"}

AppIdle ==
    /\ a_pc = "off"
    /\ a_input = <<>>
    /\ a_cursor = 0
    /\ a_mode = "Text"
    /\ a_loading = FALSE
    /\ a_spinner = 0
    /\ a_last_submit = FALSE
    /\ a_rag = "none"
    /\ a_cmd_out = FALSE
    /\ a_jobs = <<>>
    /\ a_channel = <<>>

\* App::new and the channel of run_app
AppNew ==
    /\ a_pc = "run"
    /\ a_input = <<>>
    /\ a_cursor = 0
    /\ a_mode = "Text"
    /\ a_loading = FALSE
    /\ a_spinner = 0
    /\ a_last_submit = FALSE
    /\ a_rag = "none"
    /\ a_cmd_out = FALSE
    /\ a_jobs = <<>>
    /\ a_channel = <<>>

AppFrame == UNCHANGED <<agent_vars, parser_vars, prompt_vars, norm_vars, chunk_vars>>

\* KeyCode::Char(ch) => app.insert_char(ch)
insert_char ==
    /\ a_pc = "run"
    /\ \E c \in TypedChars :
          /\ Len(a_input) + Len(c) <= MaxInput
          /\ IF a_cursor <= Len(a_input) /\ is_char_boundary(a_input, a_cursor)
             THEN /\ a_input' = InsertAt(a_input, a_cursor, c)
                  /\ a_cursor' = a_cursor + 1
                  /\ UNCHANGED a_pc
             ELSE /\ a_pc' = "aborted"
                  /\ UNCHANGED <<a_input, a_cursor>>
    /\ UNCHANGED <<a_mode, a_loading, a_spinner, a_last_submit, a_rag, a_cmd_out,
                   a_jobs, a_channel>>
    /\ AppFrame

\* KeyCode::Backspace => app.delete_char()
delete_char ==
    /\ a_pc = "run"
    /\ a_cursor > 0
    /\ a_cursor' = a_cursor - 1
    /\ IF a_cursor - 1 < Len(a_input) /\ is_char_boundary(a_input, a_cursor - 1)
       THEN /\ a_input' = RemoveAt(a_input, a_cursor - 1)
            /\ UNCHANGED a_pc
       ELSE /\ a_pc' = "aborted"
            /\ UNCHANGED a_input
    /\ UNCHANGED <<a_mode, a_loading, a_spinner, a_last_submit, a_rag, a_cmd_out,
                   a_jobs, a_channel>>
    /\ AppFrame

\* KeyCode::Left => app.move_left()
move_left ==
    /\ a_pc = "run"
    /\ a_cursor > 0
    /\ a_cursor' = a_cursor - 1
    /\ UNCHANGED <<a_pc, a_input, a_mode, a_loading, a_spinner, a_last_submit,
                   a_rag, a_cmd_out, a_jobs, a_channel>>
    /\ AppFrame

\* KeyCode::Right => app.move_right()
move_right ==
    /\ a_pc = "run"
    /\ a_cursor < Len(a_input)
    /\ a_cursor' = a_cursor + 1
    /\ UNCHANGED <<a_pc, a_input, a_mode, a_loading, a_spinner, a_last_submit,
                   a_rag, a_cmd_out, a_jobs, a_channel>>
    /\ AppFrame

\* KeyCode::Enter => app.submit(tx.clone())
submit ==
    /\ a_pc = "run"
    /\ ~submit_blocked(a_input, a_loading)
    /\ a_last_submit' = TRUE
    /\ a_loading' = TRUE
    /\ IF a_mode = "Text"
       THEN /\ a_rag' = "none"
            /\ a_jobs' = Append(a_jobs, "rag")
       ELSE /\ a_jobs' = Append(a_jobs, "command")
            /\ UNCHANGED a_rag
    /\ a_input' = <<>>
    /\ a_cursor' = 0
    /\ UNCHANGED <<a_pc, a_mode, a_spinner, a_cmd_out, a_channel>>
    /\ AppFrame

\* Ctrl-R / F2 => app.index_now(tx.clone())
index_now ==
    /\ a_pc = "run"
    /\ ~a_loading
    /\ a_loading' = TRUE
    /\ a_rag' = "indexing"
    /\ a_jobs' = Append(a_jobs, "index")
    /\ UNCHANGED <<a_pc, a_input, a_cursor, a_mode, a_spinner, a_last_submit,
                   a_cmd_out, a_channel>>
    /\ AppFrame

\* KeyCode::Tab: the other input mode, the input line cleared
switch_mode ==
    /\ a_pc = "run"
    /\ a_mode' = IF a_mode = "Text" THEN "Command" ELSE "Text"
    /\ a_input' = <<>>
    /\ a_cursor' = 0
    /\ UNCHANGED <<a_pc, a_loading, a_spinner, a_last_submit, a_rag, a_cmd_out,
                   a_jobs, a_channel>>
    /\ AppFrame

\* Ctrl-C, Esc or the end of the event stream: run_app returns
quit ==
    /\ a_pc = "run"
    /\ a_pc' = "exited"
    /\ UNCHANGED <<a_input, a_cursor, a_mode, a_loading, a_spinner,
                   a_last_submit, a_rag, a_cmd_out, a_jobs, a_channel>>
    /\ AppFrame

\* spinner_tick.tick()
spinner_tick ==
    /\ a_pc = "run"
    /\ a_loading
    /\ a_spinner' = (a_spinner + 1) % 4
    /\ UNCHANGED <<a_pc, a_input, a_cursor, a_mode, a_loading, a_last_submit,
                   a_rag, a_cmd_out, a_jobs, a_channel>>
    /\ AppFrame

\* a spawn_blocking closure ends with tx.send(response); the send fails
\* silently once run_app has returned and dropped rx
job_sends ==
    /\ a_pc \in {"run", "exited"}
    /\ a_jobs # <<>>
    /\ \E i \in 1..Len(a_jobs), r \in Responses :
          /\ r \in JobResponses(a_jobs[i])
          /\ a_jobs' = SubSeq(a_jobs, 1, i - 1) \o SubSeq(a_jobs, i + 1, Len(a_jobs))
          /\ a_channel' = IF a_pc = "run" THEN Append(a_channel, r) ELSE a_channel
    /\ UNCHANGED <<a_pc, a_input, a_cursor, a_mode, a_loading, a_spinner,
                   a_last_submit, a_rag, a_cmd_out>>
    /\ AppFrame

\* maybe_result = rx.recv()
receive ==
    /\ a_pc = "run"
    /\ a_channel # <<>>
    /\ a_loading' = FALSE
    /\ a_channel' = Tail(a_channel)
    /\ IF Head(a_channel) = "command"
       THEN a_cmd_out' = TRUE /\ UNCHANGED a_rag
       ELSE a_rag' = Head(a_channel) /\ UNCHANGED a_cmd_out
    /\ UNCHANGED <<a_pc, a_input, a_cursor, a_mode, a_spinner, a_last_submit,
                   a_jobs>>
    /\ AppFrame

\* ------------------------------------------------------------------------
\* chunk_text (src/rag/src/chunk_text.rs): one action per pass of its loop
\* ------------------------------------------------------------------------
ChunkAlphabet == {"a", " "}

\* the overlap used as configured
effective_overlap_as_configured(size, overlap) == overlap

\* if overlap >= size { overlap = size / 4; }
effective_overlap(size, overlap) ==
    IF overlap >= size THEN size \div 4 ELSE overlap

\* usize::saturating_sub
saturating_sub(a, b) == IF a >= b THEN a - b ELSE 0

\* usize::min
Min(a, b) == IF a <= b THEN a ELSE b

\* chars[start..end] collected, 0-based and end exclusive
Slice(chars, start, end) == SubSeq(chars, start + 1, end)

\* chunks after the window [start, end) was handled
push_chunk(chunks, chars, start, end) ==
    IF Trim(Slice(chars, start, end)) # <<>>
    THEN Append(chunks, Trim(Slice(chars, start, end)))
    ELSE chunks

ChunkIdle ==
    /\ c_pc = "idle"
    /\ c_text = <<>>
    /\ c_size = 0
    /\ c_overlap = 0
    /\ c_start = 0
    /\ c_chunks = <<>>

ChunkInit ==
    /\ c_pc = "input"
    /\ c_text \in TextsUpTo(ChunkAlphabet, MaxChunkText)
    /\ c_size \in 0..MaxChunkSize
    /\ c_overlap \in 0..(MaxChunkSize + 1)
    /\ c_start = 0
    /\ c_chunks = <<>>

\* chunk_text up to its loop: the early return for size 0, the overlap
\* brought below the size
chunk_text_enter ==
    /\ c_pc = "input"
    /\ IF c_size = 0
       THEN /\ c_chunks' = <<c_text>>
            /\ c_pc' = "done"
            /\ UNCHANGED c_overlap
       ELSE /\ c_overlap' = effective_overlap(c_size, c_overlap)
            /\ c_pc' = "loop"
            /\ UNCHANGED c_chunks
    /\ UNCHANGED <<c_text, c_size, c_start>>
    /\ UNCHANGED <<agent_vars, parser_vars, prompt_vars, norm_vars, app_vars>>

\* one pass of while start < len_chars
chunk_text_pass ==
    /\ c_pc = "loop"
    /\ c_start < Len(c_text)
    /\ Len(c_chunks) <= MaxChunkText + 1
    /\ LET end == Min(c_start + c_size, Len(c_text)) IN
       /\ c_chunks' = push_chunk(c_chunks, c_text, c_start, end)
       /\ IF end = Len(c_text)
          THEN c_pc' = "done" /\ UNCHANGED c_start
          ELSE c_pc' = "loop" /\ c_start' = saturating_sub(end, c_overlap)
    /\ UNCHANGED <<c_text, c_size, c_overlap>>
    /\ UNCHANGED <<agent_vars, parser_vars, prompt_vars, norm_vars, app_vars>>

\* the loop test fails: chunks is returned
chunk_text_leave ==
    /\ c_pc = "loop"
    /\ ~(c_start < Len(c_text))
    /\ c_pc' = "done"
    /\ UNCHANGED <<c_text, c_size, c_overlap, c_start, c_chunks>>
    /\ UNCHANGED <<agent_vars, parser_vars, prompt_vars, norm_vars, app_vars>>

\* ------------------------------------------------------------------------
\* Specifications
\* ------------------------------------------------------------------------
Init == AgentInit /\ ParserIdle /\ PromptIdle /\ NormIdle /\ ChunkIdle /\ AppIdle

Next ==
    \/ answer_query_hybrid
    \/ run_agent_direct
    \/ GenerateJsonFails
    \/ StepPanic
    \/ StepParseFailure
    \/ StepRetrieve
    \/ StepToolCall
    \/ StepPromptCall
    \/ StepResourceRead
    \/ StepFinalAnswer
    \/ ForceFinal

Spec == Init /\ [][Next]_vars

\* run_agent is sequential code: while a step is possible, one is taken
FairSpec == Spec /\ WF_vars(Next)

ParseInit == AgentIdle /\ ParserInit /\ PromptIdle /\ NormIdle /\ ChunkIdle /\ AppIdle

ParseNext == ParseBare \/ ParseEmbedded

SpecParse == ParseInit /\ [][ParseNext]_vars

BuildInit == AgentIdle /\ ParserIdle /\ PromptInit /\ NormIdle /\ ChunkIdle /\ AppIdle

BuildNext == BuildPrompt

SpecPrompt == BuildInit /\ [][BuildNext]_vars

NormalizeInit == AgentIdle /\ ParserIdle /\ PromptIdle /\ NormInit /\ ChunkIdle /\ AppIdle

NormalizeNext == Normalize

SpecNormalize == NormalizeInit /\ [][NormalizeNext]_vars

ChunkTextInit ==
    AgentIdle /\ ParserIdle /\ PromptIdle /\ NormIdle /\ ChunkInit /\ AppIdle

ChunkTextNext == chunk_text_enter \/ chunk_text_pass \/ chunk_text_leave

SpecChunk == ChunkTextInit /\ [][ChunkTextNext]_vars

\* chunk_text is sequential code: while a step is possible, one is taken
FairSpecChunk == SpecChunk /\ WF_vars(ChunkTextNext)

AppInit ==
    AgentIdle /\ ParserIdle /\ PromptIdle /\ NormIdle /\ ChunkIdle /\ AppNew

AppNext ==
    \/ insert_char
    \/ delete_char
    \/ move_left
    \/ move_right
    \/ submit
    \/ index_now
    \/ switch_mode
    \/ quit
    \/ spinner_tick
    \/ job_sends
    \/ receive

SpecApp == AppInit /\ [][AppNext]_vars

\* ------------------------------------------------------------------------
\* Properties of the orchestration loop (specification Spec)
\* ------------------------------------------------------------------------
Last(q) == q[Len(q)]

HasUserTurn == \E i \in 1..Len(conversation) : conversation[i].role = "user"

\* the session's user turn carries a trigger phrase, whatever its case
RetrievalOnlyAsked ==
    /\ HasUserTurn
    /\ \E t \in RagOnlyTriggers : Contains(ToLower(question), t)

\* this step is one iteration of the loop: a directive request was made
IterationStep == requests' = requests + 1

CapabilityKinds == {"ToolCall", "PromptCall", "ResourceRead"}

\* the turn that records the outcome of a retrieval
RetrievalTurn(r, okKind, errKind) ==
    IF r.out.ok
    THEN Message("system", Content(okKind, r.query, r.out.text))
    ELSE Message("tool", Content(errKind, <<>>, r.out.text))

\* C1: with max_steps = N the loop makes at most N directive requests
\* (iterations), also once the forced-final procedure has run; and a
\* FinalAnswer directive, on iteration N included, ends the session with
\* that answer as the normal result, the forced-final procedure not invoked.
C1_StepBudget ==
    /\ requests <= max_steps
    /\ current_step <= requests
    /\ decision.kind = "FinalAnswer" =>
          /\ pc = "done"
          /\ result = ResultOk(decision.text)
          /\ forced = <<>>

\* a FinalAnswer parsed on iteration N, entered with step_count = N - 1
C1_Witness ==
    /\ decision.kind = "FinalAnswer"
    /\ max_steps >= 2
    /\ requests = max_steps
    /\ current_step = max_steps - 1
    /\ result.kind = "Ok"

\* C2: in a session whose user turn contains a retrieval-only trigger
\* phrase, an iteration that parsed a ToolCall, PromptCall or ResourceRead
\* makes exactly one retrieval call, with the question as its query,
\* appends exactly one turn, which carries that retrieval's outcome, makes
\* no capability call and adds 1 to the step count.
C2_RagOnlyConverts ==
    [][ (IterationStep /\ RetrievalOnlyAsked /\ decision'.kind \in CapabilityKinds)
        => /\ Len(retrieve_calls') = Len(retrieve_calls) + 1
           /\ SubSeq(retrieve_calls', 1, Len(retrieve_calls)) = retrieve_calls
           /\ Last(retrieve_calls').query = question
           /\ conversation' = Append(conversation,
                  RetrievalTurn(Last(retrieve_calls'), "rag_fallback_rag_only",
                                "rag_fallback_error_rag_only"))
           /\ rpc_calls' = rpc_calls
           /\ current_step' = current_step + 1 ]_vars

\* a tool directive turned into a retrieval although capability access is on
C2_Witness ==
    /\ RetrievalOnlyAsked
    /\ mcp_enabled
    /\ decision.kind = "ToolCall"
    /\ retrieve_calls # <<>>
    /\ Last(retrieve_calls).query = question
    /\ Last(conversation).content.kind = "rag_fallback_rag_only"

\* C3: no call_tool, get_prompt or read_resource is ever made in a session
\* in retrieval-only mode or without capability access.
C3_NoRpcWhenRestricted ==
    (RetrievalOnlyAsked \/ ~mcp_enabled) => rpc_calls = <<>>

\* capability directives were dispatched in a restricted session
C3_Witness ==
    /\ RetrievalOnlyAsked
    /\ mcp_enabled
    /\ decision.kind = "PromptCall"
    /\ current_step = 2
    /\ rpc_calls = <<>>

\* C4: an iteration whose resource read failed appends exactly two turns:
\* the read failure, then the outcome of the one retrieval fallback; the
\* step count grows by 1.
C4_FailedReadTwoTurns ==
    [][ ( /\ IterationStep
          /\ Len(rpc_calls') = Len(rpc_calls) + 1
          /\ Last(rpc_calls').op = "read_resource"
          /\ ~Last(rpc_calls').ok )
        => /\ Len(retrieve_calls') = Len(retrieve_calls) + 1
           /\ conversation' =
                 conversation \o
                 << Message("tool", Content("resource_read_failed",
                                            Last(rpc_calls').name, "rpc error")),
                    RetrievalTurn(Last(retrieve_calls'), "rag_fallback_read_failed",
                                  "rag_fallback_error_read_failed") >>
           /\ current_step' = current_step + 1 ]_vars

\* a failed read whose retrieval fallback failed too
C4_Witness ==
    /\ Len(conversation) >= 2
    /\ rpc_calls # <<>>
    /\ ~Last(rpc_calls).ok
    /\ conversation[Len(conversation) - 1].content.kind = "resource_read_failed"
    /\ Last(conversation).content.kind = "rag_fallback_error_read_failed"

\* C5: an iteration whose model output does not parse to a directive
\* appends exactly one system turn describing the failure, adds 1 to the
\* step count and goes on; the context log is unchanged, no retrieval and
\* no capability call is made, and the session is not aborted.
C5_ParseFailureRecovers ==
    [][ (IterationStep /\ decision'.kind \in {"Err", "Panic"})
        => /\ pc' = "loop"
           /\ conversation' = Append(conversation,
                  Message("system", Content("invalid_controller_json",
                                            decision'.text, decision'.err)))
           /\ current_step' = current_step + 1
           /\ context_log' = context_log
           /\ retrieve_calls' = retrieve_calls
           /\ rpc_calls' = rpc_calls ]_vars

\* the forced-final call failed, or returned a blank answer
ForcedFinalFailed ==
    /\ Len(forced) = 1
    /\ ~forced[1].ok \/ IsBlank(forced[1].text)

p_raw == p_pre \o p_body \o p_suf

HasChar(t, ch) == \E i \in 1..Len(t) : t[i] = ch

NoObjectFound == DecisionErr("No JSON object found in model output", <<>>)

\* C7 as stated: parse_decision returns a directive or a parse failure for
\* every text, whatever the number and order of its braces, never
\* aborting; a text that is not parseable as a whole and lacks a "{" or a
\* "}" gives the "no object found" failure.
C7_TotalParser ==
    p_pc = "parsed" =>
        /\ p_out.kind \in DirectiveKinds \cup {"Err"}
        /\ (~from_str(p_raw).ok /\ ~(HasChar(p_raw, "{") /\ HasChar(p_raw, "}")))
               => p_out = NoObjectFound

\* C8 as stated: a valid directive object parses to the same directive
\* inside any prefix and suffix as on its own.
C8_AnyProse ==
    (p_family = "wrap" /\ p_pc = "parsed" /\ p_bare.kind \in DirectiveKinds)
        => p_out = p_bare

\* C8 as amended: a valid directive object parses to the same directive
\* as on its own inside every prefix without "{" and suffix without "}",
\* unless the whole text is itself a JSON document other than the object
\* between whitespace (the object wrapped in "[" and "]").
C8_BraceFreeProse ==
    ( /\ p_family = "wrap" /\ p_pc = "parsed" /\ p_bare.kind \in DirectiveKinds
      /\ ~HasChar(p_pre, "{")
      /\ ~HasChar(p_suf, "}")
      /\ from_str(p_raw).ok => (IsBlank(p_pre) /\ IsBlank(p_suf)) )
        => p_out = p_bare

\* a directive with a nested arguments object, read out of prose
C8_Witness ==
    /\ p_family = "wrap" /\ p_pc = "parsed"
    /\ p_pre = <<"[", "x", "]", " ">>
    /\ p_suf = <<" ", "b">>
    /\ p_out.kind = "Retrieve"
    /\ p_out = p_bare

\* the candidates of p_cands that are present and not blank
NonBlank == {i \in DOMAIN p_cands : p_cands[i].some /\ ~IsBlank(p_cands[i].s)}
FirstOf(S) == CHOOSE i \in S : \A j \in S : i <= j

\* C9: for a final action the answer is the first candidate that is not
\* blank, in the order answer, arguments as a bare string,
\* arguments.answer, arguments.final, arguments.text, arguments.response,
\* name; parsing fails exactly when no candidate is non-blank.
C9_FinalPriority ==
    (p_family = "final" /\ p_pc # "input") =>
        IF NonBlank = {}
        THEN p_bare = DecisionErr("final action requires answer", <<>>)
        ELSE p_bare = FinalAnswer(p_cands[FirstOf(NonBlank)].s)

\* a blank answer field and a blank arguments.final fall through to
\* arguments.text, which wins over arguments.response and name
C9_Witness ==
    /\ p_family = "final" /\ p_pc # "input"
    /\ p_cands[1] = Some(<<" ">>)
    /\ p_cands[4] = Some(<<" ">>)
    /\ NonBlank = {5, 6, 7}
    /\ p_bare = FinalAnswer(<<"T">>)

\* C10 as stated: for a resource action, parsing fails only when no one
\* of uri, arguments.uri and name is non-blank; otherwise the directive is
\* a ResourceRead.
C10_ResourceFallsThrough ==
    (p_family = "resource" /\ p_pc # "input") =>
        IF NonBlank = {}
        THEN p_bare = DecisionErr("resource action requires uri", <<>>)
        ELSE p_bare.kind = "ResourceRead"

\* the text was written from an action spelling, a name and an arguments
\* member, and has been parsed
ShapeParsed == p_family = "shape" /\ p_pc # "input"

ShapeAction == p_cands[1]
ShapeName == p_cands[2]
ShapeArguments == p_cands[3].v

\* arguments is an object whose member query is a string
HasStringQuery ==
    /\ ShapeArguments.t = "obj"
    /\ k_query \in DOMAIN ShapeArguments.m
    /\ ShapeArguments.m[k_query].t = "str"

\* C11: for a retrieve action the result is Retrieve{query} exactly when
\* arguments.query is present and is a string, the query being that
\* string; with arguments absent, null, not an object, or query absent or
\* not a string, the result is the failure naming arguments.query.
C11_RetrieveNeedsQuery ==
    (ShapeParsed /\ ShapeAction.known /\ ShapeAction.canon = k_retrieve) =>
        IF HasStringQuery
        THEN p_bare = Retrieve(ShapeArguments.m[k_query].s)
        ELSE p_bare = DecisionErr("retrieve action requires arguments.query", <<>>)

\* an empty query string is a query; a query inside an array is not
C11_Witness ==
    /\ ShapeParsed
    /\ ShapeAction.text = k_retrieve
    /\ ShapeArguments = JObj(k_query :> JStr(<<>>))
    /\ p_bare = Retrieve(<<>>)

\* C12: for a tool or prompt action parsing succeeds exactly when name is
\* present and not blank; the ToolCall or PromptCall carries that name and
\* the arguments value as written, null or absent arguments becoming the
\* empty object.
C12_ToolPromptNeedName ==
    (ShapeParsed /\ ShapeAction.known /\ ShapeAction.canon \in {k_tool, k_prompt}) =>
        LET isTool == ShapeAction.canon = k_tool
            args == IF ShapeArguments.t = "null" THEN JObj(<<>>) ELSE ShapeArguments
        IN IF ShapeName.some /\ Trim(ShapeName.s) # <<>>
           THEN p_bare = IF isTool THEN ToolCall(ShapeName.s, args)
                         ELSE PromptCall(ShapeName.s, args)
           ELSE p_bare = DecisionErr(IF isTool THEN "tool action requires name"
                                     ELSE "prompt action requires name", <<>>)

\* a tool directive written with "arguments": null carries the empty object
C12_Witness ==
    /\ ShapeParsed
    /\ ShapeAction.canon = k_tool
    /\ p_cands[3].text = null_text
    /\ p_bare = ToolCall(<<" ", "n">>, JObj(<<>>))

\* the variant an action selects
VariantOf(canon) ==
    CASE canon = k_retrieve -> "Retrieve"
      [] canon = k_tool     -> "ToolCall"
      [] canon = k_prompt   -> "PromptCall"
      [] canon = k_resource -> "ResourceRead"
      [] canon = k_final    -> "FinalAnswer"

\* the same fields written with the canonical spelling of the action
CanonicalBody ==
    ShapeBody(<<Spelling(ShapeAction.canon, ShapeAction.canon, TRUE),
                p_cands[2], p_cands[3]>>, FALSE)

\* C13: a spelling of retrieve/tool/prompt/resource/final that differs
\* only in case or surrounding whitespace parses as the canonical spelling
\* does, a successful parse yields the one variant the action selects, and
\* any other action yields the failure naming the trimmed, folded action.
C13_ActionSelectsVariant ==
    ShapeParsed =>
        IF ShapeAction.known
        THEN /\ p_bare.kind \in {VariantOf(ShapeAction.canon), "Err"}
             /\ p_bare = parse_decision(CanonicalBody)
        ELSE p_bare = DecisionErr("unknown action", ShapeAction.canon)

\* an upper-case spelling followed by a space selects ToolCall
C13_Witness ==
    /\ ShapeParsed
    /\ ShapeAction.text = <<"T","O","O","L"," ">>
    /\ p_bare = ToolCall(<<"n">>, JObj(k_city :> JStr(<<"X">>)))

\* ------------------------------------------------------------------------
\* Properties of build_hybrid_system_prompt (specification SpecPrompt)
\* ------------------------------------------------------------------------
HasPiece(prompt, piece) == \E i \in 1..Len(prompt) : prompt[i] = piece

NoCapabilityListed ==
    b_caps.tools = <<>> /\ b_caps.prompts = <<>> /\ b_caps.resources = <<>>

\* C14: the rendered system prompt never holds both the "MCP is currently
\* unavailable" restriction and the "returned no tools/prompts/resources"
\* steering notice: with access disabled it holds the restriction only,
\* with access enabled and three empty lists the steering notice only,
\* with access enabled and a non-empty list neither.
C14_OneClosingNotice ==
    b_pc = "built" =>
        LET restricted == HasPiece(b_prompt, unavailable_notice)
            steered    == HasPiece(b_prompt, no_capabilities_notice)
        IN /\ ~(restricted /\ steered)
           /\ ~b_enabled => (restricted /\ ~steered)
           /\ (b_enabled /\ NoCapabilityListed) => (steered /\ ~restricted)
           /\ (b_enabled /\ ~NoCapabilityListed) => (~restricted /\ ~steered)

\* access disabled and nothing listed: both conditions are met, and the
\* prompt ends with the restriction
C14_Witness ==
    /\ b_pc = "built"
    /\ ~b_enabled
    /\ NoCapabilityListed
    /\ b_caps.diagnostics # <<>>
    /\ b_prompt[Len(b_prompt)] = unavailable_notice
    /\ ~HasPiece(b_prompt, no_capabilities_notice)

\* ------------------------------------------------------------------------
\* Further properties of the orchestration loop (specification Spec)
\* ------------------------------------------------------------------------
EmptyFallback == "Model returned an empty fallback final answer"

\* C15 as stated: when the forced-final completion returns a text that is
\* not only whitespace the session's answer is that text trimmed; when it
\* returns only whitespace the procedure fails with the empty fallback
\* answer error.
C15_ForcedAnswerTrimmed ==
    (pc = "done" /\ forced # <<>> /\ Last(forced).ok) =>
        IF IsBlank(Last(forced).text)
        THEN result.kind = "Err" /\ result.nested = EmptyFallback
        ELSE result = ResultOk(Trim(Last(forced).text))

\* the query the claims give a substituted retrieval: the user's
\* utterance, else the text of the directive
SubstituteQuery == IF HasUserTurn THEN question ELSE decision'.text

NewTurns == SubSeq(conversation', Len(conversation) + 1, Len(conversation'))

UnavailableTurn == Message("system", Content("mcp_unavailable", <<>>, ""))

\* C16 as stated: a ToolCall or PromptCall dispatched with capability
\* access unavailable and retrieval-only mode not active makes one
\* retrieval with the latest user utterance (else the name) as query,
\* appends its outcome as a context or tool-result turn and also the
\* system turn restricting directives to retrieve/final, and adds 1 to
\* step_count.
C16_UnavailableRetrieves ==
    [][ ( /\ IterationStep
          /\ decision'.kind \in {"ToolCall", "PromptCall"}
          /\ ~mcp_enabled
          /\ ~RetrievalOnlyAsked )
        => /\ Len(retrieve_calls') = Len(retrieve_calls) + 1
           /\ Last(retrieve_calls').query = SubstituteQuery
           /\ Len(NewTurns) = 2
           /\ \E i \in 1..2 : NewTurns[i] = UnavailableTurn
           /\ \E i \in 1..2 : NewTurns[i].content.r = Last(retrieve_calls').out.text
           /\ current_step' = current_step + 1 ]_vars

\* C17: a ResourceRead dispatched with capability access unavailable
\* attempts no resource read, makes exactly one retrieval whose query is
\* the latest user utterance, or the URI when the transcript has no user
\* turn, appends exactly one turn, holding that retrieval's outcome, and
\* adds 1 to step_count.
C17_UnavailableReadRetrieves ==
    [][ ( /\ IterationStep
          /\ decision'.kind = "ResourceRead"
          /\ ~mcp_enabled )
        => /\ rpc_calls' = rpc_calls
           /\ Len(retrieve_calls') = Len(retrieve_calls) + 1
           /\ SubSeq(retrieve_calls', 1, Len(retrieve_calls)) = retrieve_calls
           /\ Last(retrieve_calls').query = SubstituteQuery
           /\ Len(conversation') = Len(conversation) + 1
           /\ SubSeq(conversation', 1, Len(conversation)) = conversation
           /\ Last(conversation') \in
                  { RetrievalTurn(Last(retrieve_calls'), "rag_fallback_mcp_disabled",
                                  "rag_fallback_error_mcp_disabled"),
                    RetrievalTurn(Last(retrieve_calls'), "rag_fallback_rag_only",
                                  "rag_fallback_error_rag_only") }
           /\ current_step' = current_step + 1 ]_vars

\* a transcript without a user turn: the URI was the query of the
\* retrieval, whose outcome is the only turn
C17_Witness ==
    /\ ~mcp_enabled
    /\ ~HasUserTurn
    /\ decision.kind = "ResourceRead"
    /\ rpc_calls = <<>>
    /\ Len(retrieve_calls) = 1
    /\ retrieve_calls[1].query = t_uri
    /\ Len(conversation) = 1
    /\ conversation[1] = RetrievalTurn(retrieve_calls[1], "rag_fallback_mcp_disabled",
                                        "rag_fallback_error_mcp_disabled")
    /\ current_step = 1

\* C18 as stated: step_count starts at 0, never decreases, grows by
\* exactly 1 in every iteration that got a model output and does not end
\* in FinalAnswer (parse failure, retrieve, tool, prompt, resource, with
\* success or failure), is unchanged by the FinalAnswer iteration, and
\* stays within 0..max_steps.
C18_StepCount ==
    /\ current_step = 0
    /\ [][ /\ current_step' >= current_step
           /\ (IterationStep /\ decision'.kind \notin {"FinalAnswer", "None"})
                  => current_step' = current_step + 1
           /\ (IterationStep /\ decision'.kind = "FinalAnswer")
                  => current_step' = current_step
           /\ 0 <= current_step' /\ current_step' <= max_steps' ]_vars

IsPrefix(a, b) == Len(a) <= Len(b) /\ SubSeq(b, 1, Len(a)) = a

\* C19: the transcript only grows at its end (the transcript before a
\* step is a prefix of the transcript after it), and every directive
\* request carries the whole transcript accumulated so far, corrections
\* and fallback narrations included.
C19_AppendOnly ==
    [][ /\ IsPrefix(conversation, conversation')
        /\ IterationStep => sent' = conversation ]_vars

\* the second request carried the failed read and its fallback narration
\* of the first iteration; its own output drew a correction, appended last
C19_Witness ==
    /\ requests = 2
    /\ Len(sent) >= 2
    /\ Len(conversation) = Len(sent) + 1
    /\ IsPrefix(sent, conversation)
    /\ Last(conversation).content.kind = "invalid_controller_json"
    /\ sent[Len(sent) - 1].content.kind = "resource_read_failed"
    /\ Last(sent).content.kind = "rag_fallback_read_failed"

\* C20 as stated: every collaborator call returning, run_agent ends by
\* returning: the final answer, or after the step budget the forced-final
\* answer or a failure.
C20_AlwaysReturns == <>(pc = "done")

\* every session comes to an end, by returning or by aborting
SessionEnds == <>(pc \in {"done", "aborted"})

\* the turns that are not retrieved context: failed retrievals, direct or
\* fallback, parse-failure corrections, mode restrictions
NotContextKinds ==
    { "rag_retrieve_error", "rag_fallback_error_rag_only",
      "rag_fallback_error_mcp_disabled", "rag_fallback_error_read_failed",
      "invalid_controller_json", "mcp_unavailable", "rag_only_notice" }

HoldsNoChatter(pieces) ==
    \A i \in 1..Len(pieces) : pieces[i].kind \notin NotContextKinds

\* the context of the forced-final prompt, once that request was made
ForcedContext == chat.messages[2].content.context

\* C21 as stated: a failed retrieval (direct or fallback), a parse-failure
\* correction and a mode-restriction system turn add nothing to the
\* context log, and none of them appears in the returned context text or
\* in the forced-final prompt.
C21_LogHoldsContextOnly ==
    /\ HoldsNoChatter(context_log)
    /\ pc = "done" => HoldsNoChatter(context_text(context_log))
    /\ chat.format = "none" => HoldsNoChatter(ForcedContext)

\* this step made the forced-final request
ForcedFinalStep == forced' # forced

\* the log entries in order, a blank line between neighbours
IsJoinedLog(pieces, log) ==
    /\ Len(pieces) = 2 * Len(log) - 1
    /\ \A i \in 1..Len(log) : pieces[2 * i - 1] = log[i]
    /\ \A i \in 1..(Len(log) - 1) : pieces[2 * i] = BlankLine

\* C24: the forced-final request is a plain completion over exactly two
\* turns, a system turn and a user turn holding every context-log entry in
\* the order of accumulation joined by a blank line, or "(no context
\* found)" when the log is empty, followed by the question; the directive
\* requests of the loop are structured (json) completions.
C24_ForcedFinalRequest ==
    [][ /\ IterationStep => chat'.format = "json"
        /\ ForcedFinalStep =>
              /\ chat'.format = "none"
              /\ Len(chat'.messages) = 2
              /\ chat'.messages[1].role = "system"
              /\ chat'.messages[2].role = "user"
              /\ IF context_log = <<>>
                 THEN chat'.messages[2].content.context = <<NoContextFound>>
                 ELSE IsJoinedLog(chat'.messages[2].content.context, context_log)
              /\ chat'.messages[2].content.q = IF HasUserTurn THEN question ELSE <<>>
      ]_vars

\* two iterations logged a tool result and a retrieved context; the forced
\* prompt holds both with a blank line between them
C24_Witness ==
    /\ pc = "done"
    /\ chat.format = "none"
    /\ Len(context_log) = 2
    /\ context_log[1].kind = "tool_result"
    /\ context_log[2].kind = "rag_retrieve"
    /\ ForcedContext = <<context_log[1], BlankLine, context_log[2]>>
    /\ chat.messages[2].content.q = question

GrowsByOne(before, after) == Len(after) = Len(before) + 1 /\ IsPrefix(before, after)

\* C25: a Retrieve directive makes exactly one retrieval, with the
\* directive's own query; on success one context turn holding the query
\* and the returned context is appended and logged, on failure one
\* tool-result turn describing the error is appended; either way
\* step_count grows by 1 and the loop goes on.
C25_RetrieveStep ==
    [][ (IterationStep /\ decision'.kind = "Retrieve") =>
          /\ GrowsByOne(retrieve_calls, retrieve_calls')
          /\ Last(retrieve_calls').query = decision'.text
          /\ rpc_calls' = rpc_calls
          /\ GrowsByOne(conversation, conversation')
          /\ IF Last(retrieve_calls').out.ok
             THEN /\ Last(conversation') =
                        Message("system", Content("rag_retrieve", decision'.text,
                                                  Last(retrieve_calls').out.text))
                  /\ GrowsByOne(context_log, context_log')
                  /\ Last(context_log') = Last(conversation').content
             ELSE Last(conversation') =
                      Message("tool", Content("rag_retrieve_error", <<>>,
                                              Last(retrieve_calls').out.text))
          /\ current_step' = current_step + 1
          /\ pc' = "loop" ]_vars

\* a retrieval that failed in retrieval-only mode: the directive's query
\* was used, not the user's utterance, and a tool turn records the error
C25_Witness ==
    /\ RetrievalOnlyAsked
    /\ decision.kind = "Retrieve"
    /\ Len(retrieve_calls) = 1
    /\ retrieve_calls[1] = Retrieval(t_q, Outcome(FALSE, "retrieve error"))
    /\ Last(conversation).role = "tool"
    /\ current_step = 1
    /\ pc = "loop"

\* the arguments a fetch-weather call written without arguments is made
\* with: the city of the utterance "w in Pune", else the empty object
ExpectedToolArgs ==
    IF HasUserTurn /\ question = q_city
    THEN JObj(k_city :> JStr(<<"P","u","n","e">>))
    ELSE JObj(<<>>)

\* the arguments of the prompt directive, as the model wrote them
WrittenPromptArgs == JObj(k_city :> JStr(<<" ", "X">>))

\* C26: with capability access available and retrieval-only mode off, a
\* ToolCall makes exactly one call_tool with the normalized arguments and
\* a PromptCall exactly one get_prompt with the arguments as written, also
\* under the recognized tool name; whether the call succeeds or fails,
\* one tool-result turn naming the tool or prompt is appended, step_count
\* grows by 1 and the session goes on.
C26_CapabilityCall ==
    [][ ( /\ IterationStep
          /\ decision'.kind \in {"ToolCall", "PromptCall"}
          /\ mcp_enabled
          /\ ~RetrievalOnlyAsked )
        => /\ GrowsByOne(rpc_calls, rpc_calls')
           /\ Last(rpc_calls').name = decision'.text
           /\ IF decision'.kind = "ToolCall"
              THEN /\ Last(rpc_calls').op = "call_tool"
                   /\ Last(rpc_calls').args = ExpectedToolArgs
              ELSE /\ Last(rpc_calls').op = "get_prompt"
                   /\ Last(rpc_calls').args = WrittenPromptArgs
           /\ retrieve_calls' = retrieve_calls
           /\ GrowsByOne(conversation, conversation')
           /\ Last(conversation').role = "tool"
           /\ Last(conversation').content.q = decision'.text
           /\ current_step' = current_step + 1
           /\ pc' = "loop" ]_vars

\* a get_prompt under the name fetch-weather that failed: made with the
\* arguments as written, recorded as a tool turn, the session still on
C26_Witness ==
    /\ mcp_enabled
    /\ question = q_city
    /\ decision.kind = "PromptCall"
    /\ Len(rpc_calls) = 1
    /\ rpc_calls[1] = Rpc("get_prompt", k_fetch_weather, WrittenPromptArgs, FALSE)
    /\ Last(conversation).content.kind = "prompt_fetch_failed"
    /\ pc = "loop"

\* C27 as stated: capability access unavailable and retrieval-only mode
\* off, once a ToolCall, PromptCall or ResourceRead directive has been
\* dispatched the transcript holds the system turn that announces the
\* unavailability and restricts directives to retrieve/final.
C27_AnnouncedOnAttempt ==
    [][ ( /\ IterationStep
          /\ decision'.kind \in CapabilityKinds
          /\ ~mcp_enabled
          /\ ~RetrievalOnlyAsked )
        => \E i \in 1..Len(conversation') : conversation'[i] = UnavailableTurn
      ]_vars

\* the contents of the user turns of a transcript, in order
RECURSIVE UserTurns(_)
UserTurns(conv) ==
    IF conv = <<>> THEN <<>>
    ELSE IF conv[1].role = "user"
         THEN <<conv[1].content>> \o UserTurns(Tail(conv))
         ELSE UserTurns(Tail(conv))

\* the question holds a trigger phrase: of the questions asked, the one
\* that says "Use RAG only"
HoldsTrigger == question = q_rag_only

\* C28: run_agent appends no user turn, so in every state of the session
\* the latest user turn is the originating question, and the
\* retrieval-only mode computed from it is the same wherever it is
\* tested: whether the question holds a trigger phrase.
C28_ModeIsStable ==
    /\ [][ pc = "loop" => UserTurns(conversation') = UserTurns(conversation) ]_vars
    /\ [](pc \in {"loop", "done", "aborted"} =>
            IF HasUserTurn
            THEN /\ latest_user_query(conversation) = Some(question)
                 /\ is_rag_only_state(conversation) = HoldsTrigger
            ELSE ~is_rag_only_state(conversation))

\* after two iterations that each appended a turn, the mode is still
\* read from the question asked at the start
C28_Witness ==
    /\ HoldsTrigger
    /\ HasUserTurn
    /\ current_step = 2
    /\ Last(conversation).role # "user"
    /\ conversation[Len(conversation) - 1].content.kind = "invalid_controller_json"
    /\ is_rag_only_state(conversation)

\* the reason the forced-final procedure failed with
NestedReason(out) ==
    IF ~out.ok THEN "generate_answer failed" ELSE EmptyFallback

\* C30: when the budget is exhausted and the forced-final procedure
\* fails, by a failed call or an empty answer, run_agent returns one
\* failure holding the step limit max_steps and the nested reason, and no
\* answer.
C30_ExhaustionFailure ==
    [][ ( /\ ForcedFinalStep
          /\ ~Last(forced').ok \/ IsBlank(Last(forced').text) )
        => /\ pc' = "done"
           /\ result'.kind = "Err"
           /\ result'.err = "Max steps exceeded"
           /\ result'.limit = max_steps
           /\ result'.nested = NestedReason(Last(forced'))
           /\ result'.text = <<>> ]_vars

\* two steps used up, then the completion call of the forced-final
\* procedure failed
C30_Witness ==
    /\ pc = "done"
    /\ current_step = 2
    /\ max_steps = 2
    /\ Len(forced) = 1
    /\ ~forced[1].ok
    /\ result = ResultErr("Max steps exceeded", 2, "generate_answer failed")

\* the normalizer has returned
Normalized == n_pc = "done"

\* the name is the recognized tool, whatever its case
Recognized == ToLower(n_name) = k_fetch_weather

\* the replacement arguments {"city": c}
CityArgs(c) == JObj((k_city :> JStr(c)))

\* the latest user utterance of the transcript handed over, if any
Utterance == latest_user_query(n_conv)

\* no strategy finds a candidate, in the arguments or in the utterance
NoCandidate ==
    /\ ~extract_city_from_args(n_args).some
    /\ Utterance.some => ~infer_city_from_text(Utterance.s).some

\* C22: normalize_tool_args returns the arguments unchanged for every
\* name that is not the recognized tool up to case, and for the
\* recognized tool when no candidate is found in the arguments or in the
\* latest user utterance; it always returns a value.
C22_PassThrough ==
    Normalized =>
        /\ n_out.t \in {"null", "bool", "num", "str", "obj", "arr"}
        /\ ~Recognized => n_out = n_args
        /\ (Recognized /\ NoCandidate) => n_out = n_args

\* another tool's arguments came back as written although they and the
\* utterance hold a candidate
C22_Witness ==
    /\ Normalized
    /\ n_name = name_other
    /\ n_args = JObj((k_city :> JStr(<<"B">>)) @@ (k_units :> JStr(<<"C">>)))
    /\ Utterance = Some(q_city)
    /\ n_out = n_args

\* a string that is not empty once trimmed
IsCityValue(v) == v.t = "str" /\ Trim(v.s) # <<>>

\* the keys tried first, in order
FixedKeys == <<k_city, k_location, k_place, k_town, k_query>>

\* the positions of the fixed keys that hold a city value
FixedHits ==
    IF n_args.t # "obj" THEN {}
    ELSE {i \in 1..Len(FixedKeys) :
             FixedKeys[i] \in DOMAIN n_args.m /\ IsCityValue(n_args.m[FixedKeys[i]])}

\* the keys whose name contains "city" in any case and that hold a city value
LooseHits ==
    IF n_args.t # "obj" THEN {}
    ELSE {k \in DOMAIN n_args.m :
             Contains(ToLower(k), k_city) /\ IsCityValue(n_args.m[k])}

\* x is a contiguous, non-empty part of text
IsPartOf(x, text) == x # <<>> /\ Contains(text, x)

AfterCue(text, cue) ==
    LET hits == {i \in 1..(Len(text) - Len(cue) + 1) :
                    ToLower(SubSeq(text, i, i + Len(cue) - 1)) = cue}
    IN IF hits = {} THEN None
       ELSE LET i == CHOOSE i \in hits : \A j \in hits : i <= j
            IN Some(SubSeq(text, i + Len(cue), Len(text)))

\* s up to its earliest comma, semicolon or newline
CutAtDelimiter(s) ==
    LET ds == {i \in 1..Len(s) : s[i] \in {",", ";", "\n"}}
    IN IF ds = {} THEN s
       ELSE SubSeq(s, 1, (CHOOSE i \in ds : \A j \in ds : i <= j) - 1)

\* s without the whitespace and quote characters that surround it
Surrounding == WhiteSpace \cup {Quote, "'"}
Stripped(s) ==
    LET inner == {i \in 1..Len(s) : s[i] \notin Surrounding}
    IN IF inner = {} THEN <<>>
       ELSE SubSeq(s, CHOOSE i \in inner : \A j \in inner : i <= j,
                      CHOOSE i \in inner : \A j \in inner : j <= i)

\* what one cue yields from the utterance
CueYield(text, cue) ==
    IF AfterCue(text, cue).some
    THEN Stripped(CutAtDelimiter(AfterCue(text, cue).s))
    ELSE <<>>

Cues == << <<"c","i","t","y","=">>, <<"c","i","t","y",":">>,
           <<" ","i","n"," ">>, <<" ","f","o","r"," ">> >>

\* the candidate of the utterance: the yield of the first cue that has one
UtteranceCandidate(text) ==
    LET good == {i \in 1..Len(Cues) : CueYield(text, Cues[i]) # <<>>}
    IN IF good = {} THEN None
       ELSE Some(CueYield(text, Cues[CHOOSE i \in good : \A j \in good : i <= j]))

\* the normalizer fell back to the latest user utterance
FellBack ==
    /\ Normalized
    /\ Recognized
    /\ ~IsCityValue(n_args) /\ FixedHits = {} /\ LooseHits = {}
    /\ Utterance.some

\* C29 as stated: when the normalizer falls back to the latest user
\* utterance the cues "city=", "city:", " in ", " for " are tried in that
\* order in any case, and the candidate is the text after the first
\* occurrence of the first cue that yields a non-empty result, cut at the
\* earliest comma, semicolon or newline and stripped of surrounding
\* whitespace and quote characters.
C29_UtteranceCandidate ==
    FellBack =>
        IF UtteranceCandidate(Utterance.s).some
        THEN n_out = CityArgs(UtteranceCandidate(Utterance.s).s)
        ELSE n_out = n_args

\* the texts pushed by append_system: the system prompt, the mode
\* restrictions and the parse-failure correction
AnnouncementKinds ==
    {"hybrid_system_prompt", "rag_only_notice", "invalid_controller_json",
     "mcp_unavailable"}

\* a context turn or a tool-result turn of the transcript
IsLoggedTurn(m) ==
    \/ m.role = "tool"
    \/ m.role = "system" /\ m.content.kind \notin AnnouncementKinds

\* the contents of the context and tool-result turns, in transcript order
RECURSIVE LoggedContents(_)
LoggedContents(conv) ==
    IF conv = <<>> THEN <<>>
    ELSE IF IsLoggedTurn(conv[1])
         THEN <<conv[1].content>> \o LoggedContents(Tail(conv))
         ELSE LoggedContents(Tail(conv))

\* the turns placed in the transcript before the loop started
SeededKinds == {"hybrid_system_prompt", "rag_only_notice", "user_question"}
SeededCount ==
    Cardinality({i \in 1..Len(conversation) :
                    conversation[i].content.kind \in SeededKinds})

\* C31: in every reachable state the context log is, in the same order,
\* the contents of the context turns and tool-result turns appended to
\* the transcript so far; turns added by append_system are not in it, so
\* the log is no longer than the transcript without its seeded turns.
C31_LogMirrorsTranscript ==
    /\ context_log = LoggedContents(conversation)
    /\ Len(context_log) <= Len(conversation) - SeededCount

\* a context turn and a tool-result turn logged in order, beside system
\* turns that were not
C31_Witness ==
    /\ Len(context_log) = 2
    /\ context_log[1].kind = "rag_retrieve"
    /\ context_log[2].kind = "tool_call_failed"
    /\ Len(conversation) = 4
    /\ conversation[1].content.kind = "hybrid_system_prompt"

\* the number of turns appended since the loop started
AppendedCount == Len(conversation) - SeededCount

\* C32 as stated: every iteration that does not end in FinalAnswer
\* appends one or two turns, two only when an attempted resource read
\* failed; so in every reachable state
\* step_count <= turns appended since the loop started <= 2 * step_count.
C32_TurnsPerIteration ==
    /\ [][ (IterationStep /\ decision'.kind \notin {"FinalAnswer", "None"})
           => /\ IsPrefix(conversation, conversation')
              /\ Len(NewTurns) \in {1, 2}
              /\ Len(NewTurns) = 2 =>
                    /\ Len(rpc_calls') = Len(rpc_calls) + 1
                    /\ Last(rpc_calls').op = "read_resource"
                    /\ ~Last(rpc_calls').ok ]_vars
    /\ [](current_step <= AppendedCount /\ AppendedCount <= 2 * current_step)

\* the session was started by answer_query_hybrid
Seeded ==
    /\ conversation # <<>>
    /\ conversation[1].content.kind = "hybrid_system_prompt"

\* C33: answer_query_hybrid clamps the configured step limit to at least
\* 1, so whatever is configured (0 included) a directive request is made
\* before any forced-final completion, and the seeded transcript ends
\* with the question as its only user turn.
C33_ClampedLimit ==
    /\ [][ (pc = "idle" /\ pc' = "loop" /\ conversation' # <<>>
               /\ conversation'[1].content.kind = "hybrid_system_prompt")
           => /\ max_steps' >= 1
              /\ max_steps' >= cfg_max_steps
              /\ Last(conversation') = Message("user", Content("user_question", question, ""))
              /\ UserTurns(conversation') = <<Last(conversation').content>> ]_vars
    /\ []((Seeded /\ forced # <<>>) => requests >= 1)

\* a limit of 0 was configured, one request was made, then the
\* forced-final completion
C33_Witness ==
    /\ Seeded
    /\ cfg_max_steps = 0
    /\ max_steps = 1
    /\ requests = 1
    /\ forced # <<>>

\* C34: whenever normalize_tool_args finds a candidate for the recognized
\* tool, it returns an object with the one key "city" holding a non-empty
\* string; every other key of the arguments it was given is dropped.
C34_OnlyCity ==
    (Normalized /\ Recognized /\ ~NoCandidate) =>
        /\ n_out.t = "obj"
        /\ DOMAIN n_out.m = {k_city}
        /\ n_out.m[k_city].t = "str"
        /\ n_out.m[k_city].s # <<>>

\* the units given beside the city are gone from the result
C34_Witness ==
    /\ Normalized
    /\ Recognized
    /\ n_args = JObj((k_city :> JStr(<<"B">>)) @@ (k_units :> JStr(<<"C">>)))
    /\ n_out = CityArgs(<<"B">>)
    /\ k_units \notin DOMAIN n_out.m

\* a job is outstanding from its start until its response is received
Outstanding == Len(a_jobs) + Len(a_channel)

\* C35: under every interleaving of key events, spinner ticks and job
\* responses at most one background job is outstanding: submit and
\* index_now start nothing while is_loading is true, and is_loading is
\* true exactly from the start of a job until its response is received.
C35_OneJob ==
    /\ [](Outstanding <= 1)
    /\ [](a_pc = "run" => (a_loading <=> Outstanding = 1))
    /\ [][ a_loading => Len(a_jobs') <= Len(a_jobs) ]_vars

\* a second Enter while the first job's response waits in the channel
C35_Witness ==
    /\ a_pc = "run"
    /\ a_loading
    /\ a_jobs = <<>>
    /\ a_channel = <<"rag_ok">>
    /\ ~IsBlank(a_input)
    /\ a_last_submit
    /\ a_spinner = 2

\* C36 as stated: after any sequence of insert_char (any character,
\* multi-byte ones included), delete_char, move_left, move_right, submit
\* and mode switch, 0 <= cursor <= length of the input, the cursor is on
\* a character boundary and no editing operation aborts.
C36_CursorOnBoundary ==
    /\ a_pc # "aborted"
    /\ 0 <= a_cursor /\ a_cursor <= Len(a_input)
    /\ is_char_boundary(a_input, a_cursor)

\* chunk_text has returned
ChunkDone == c_pc = "done"

\* C37: chunk_text terminates for every text, chunk_size and
\* chunk_overlap (overlap >= size and size = 0 included); when size >= 1
\* the window start grows on every pass until the end of the text is
\* reached.
C37_ChunkTerminates ==
    /\ <>ChunkDone
    /\ [][ (c_pc = "loop" /\ c_pc' = "loop") => c_start' > c_start ]_vars
    /\ [][ (c_pc = "loop" /\ c_pc' = "done") =>
              \/ c_start >= Len(c_text)
              \/ c_start + c_size >= Len(c_text) ]_vars

\* an overlap above the size, and the text still cut in three windows
C37_Witness ==
    /\ ChunkDone
    /\ c_size = 1
    /\ Len(c_text) = 3
    /\ Len(c_chunks) = 3
    /\ c_start = 2

====
